---- MODULE Spec2Model ----
(***************************************************************************)
(* Model of the Brahms gossip node of ddritzenhoff/brahms: the UDP packet  *)
(* handlers with their per-round peer state (gossip.Server), the challenger *)
(* with its key rotation (challenge.Challenger) and the round engine        *)
(* (Gossip.Start).  Remote peers are the environment: they may send any     *)
(* packet at any time, and every datagram is handled by its own goroutine.  *)
(***************************************************************************)
EXTENDS Integers, Sequences, FiniteSets, Bags, TLC

(***************************************************************************)
(* Bounds of the model                                                     *)
(***************************************************************************)
\* datagrams the remote peers send during a run; each one is handled by a
\* goroutine of its own, so this is also the number of concurrent handlers
MaxPackets == 2
\* rounds the round engine runs; the model stops it before the requests of
\* the round after
MaxRound == 1
\* messages the local API client announces during a run
MaxAnnounce == 1
\* key rotation ticks the model lets happen
MaxTicks == 4
\* length of the chain of nodes a message is forwarded along
MaxHops == 3
\* round boundaries the decay of the message store is followed over
MaxBoundaries == 30

(***************************************************************************)
(* Program constants                                                       *)
(***************************************************************************)
\* challenge.NewChallenger(time.Second*15, 4): number of keys kept valid
R == 4
\* sha256.Size: length of a hash in bytes
HashSize == 32
\* handleMessage: messages of one source tolerated before a new one is ignored
FloodLimit == 50
\* ResetPeerStates: a message is kept while LocalTTL > -24
EvictBelow == 24
\* handleMessage: LocalTTL of a message received with TTL 0
InfiniteLocalTTL == 255

Self == 0
\* the remote peers: peer 1 is the bootstrap node, peer 2 a node that knows the
\* local node without being known to it
Peers == {1, 2}
Ids == {Self} \cup Peers

\* peerCondition
AllowPull == "AllowPull"
AllowMessage == "AllowMessage"
AllowPushChallenge == "AllowPushChallenge"
DenyPush == "DenyPush"
PeerConditions == {AllowPull, AllowMessage, AllowPushChallenge, DenyPush}

\* Node{Identity, Address}; the address of the model is a tag of the identity
Node(i) == [id |-> i, addr |-> i]
Nodes == {Node(i) : i \in Ids}
\* the identities of a list of nodes, in its order
Identities(nodes) == [i \in 1..Len(nodes) |-> nodes[i].id]

(***************************************************************************)
(* Hashing.  SHA-256 is modelled as a collision-free function: the hash of  *)
(* key||identity is the pair itself, the hash of challenge||nonce is a      *)
(* HashSize-byte string whose leading bytes are derived from the inputs.    *)
(***************************************************************************)
\* SHA-256(key || identity)
HashKeyId(key, identity) == [key |-> key, id |-> identity]
\* a challenge no key of the local node has produced
BogusChallenge == [key |-> 0, id |-> 0]

\* SHA-256(data)
HashData(data) == <<"sha256", data>>

\* SHA-256(challenge || nonce)
HashChallengeNonce(challenge, nonce) ==
    LET m == (challenge.key + challenge.id + nonce) % 2
    IN  [i \in 1..HashSize |->
            IF i = 1 THEN (IF m = 0 THEN 0 ELSE 16)
            ELSE IF i = 2 THEN (IF m = 0 THEN 32 ELSE 255)
            ELSE 1]

\* bits.LeadingZeros8
RECURSIVE LeadingZeros8(_, _)
LeadingZeros8(b, width) ==
    IF width = 0 THEN 0
    ELSE IF b >= 2 ^ (width - 1) THEN 8 - width
    ELSE IF width = 1 THEN 8
    ELSE LeadingZeros8(b, width - 1)

\* countLeadingZeros: zero bits before the first one bit of a byte string
RECURSIVE countLeadingZerosFrom(_, _)
countLeadingZerosFrom(data, i) ==
    IF i > Len(data) THEN 0
    ELSE LET byteLeading == LeadingZeros8(data[i], 8)
         IN  IF byteLeading # 8 THEN byteLeading
             ELSE byteLeading + countLeadingZerosFrom(data, i + 1)

countLeadingZeros(data) == countLeadingZerosFrom(data, 1)

(***************************************************************************)
(* Challenger                                                              *)
(***************************************************************************)
\* Challenger.NewChallenge: hash of the newest key and the identity
NewChallenge(keys, identity) == HashKeyId(keys[Len(keys)], identity)

\* a challenger that keeps every key it ever generated
ScanKeysNoExpiry(keys, i, challenge, identity) ==
    \E k \in 1..keys[Len(keys)] : HashKeyId(k, identity) = challenge

\* the scan of IsSolvedCorrectly over the rotation, newest key first
RECURSIVE ScanKeys(_, _, _, _)
ScanKeys(keys, i, challenge, identity) ==
    IF i < 1 THEN FALSE
    ELSE IF HashKeyId(keys[i], identity) = challenge THEN TRUE
    ELSE ScanKeys(keys, i - 1, challenge, identity)

\* an IsSolvedCorrectly that asks for more zero bits than the difficulty
IsSolvedCorrectlyAbove(keys, challenge, nonce, identity, difficulty) ==
    LET checkHash == HashChallengeNonce(challenge, nonce)
    IN  IF difficulty >= Len(checkHash) * 8 \/ difficulty < 0
          THEN [ok |-> FALSE, err |-> TRUE]
        ELSE IF countLeadingZeros(checkHash) <= difficulty
          THEN [ok |-> FALSE, err |-> FALSE]
        ELSE [ok |-> ScanKeys(keys, Len(keys), challenge, identity), err |-> FALSE]

\* Challenger.IsSolvedCorrectly: [ok, err]
IsSolvedCorrectly(keys, challenge, nonce, identity, difficulty) ==
    LET checkHash == HashChallengeNonce(challenge, nonce)
    IN  IF difficulty >= Len(checkHash) * 8 \/ difficulty < 0
          THEN [ok |-> FALSE, err |-> TRUE]
        ELSE IF countLeadingZeros(checkHash) < difficulty
          THEN [ok |-> FALSE, err |-> FALSE]
        ELSE [ok |-> ScanKeys(keys, Len(keys), challenge, identity), err |-> FALSE]

(***************************************************************************)
(* Configuration.  config.ReadConfig accepts every positive triple of      *)
(* weights that sums to 100 and leaves degree, l2 and the challenge         *)
(* difficulty unchecked.                                                    *)
(***************************************************************************)
\* a configuration whose shares of the view are all at least one node, as
\* with the defaults (l1 = 30, l2 = 30, weights 45, 45, 10)
WholeSharesConfig ==
    [ViewSize |-> 2, SamplerSize |-> 1, weightPush |-> 25, weightPull |-> 25,
     weightHistory |-> 50, ChallengeDifficulty |-> 9, RoundsBetweenPings |-> 8]

\* a configuration whose history share rounds to no node
SmallHistoryConfig ==
    [ViewSize |-> 2, SamplerSize |-> 1, weightPush |-> 45, weightPull |-> 45,
     weightHistory |-> 10, ChallengeDifficulty |-> 9, RoundsBetweenPings |-> 8]

\* a configuration that pings the sampled nodes in every round
PingConfig ==
    [ViewSize |-> 2, SamplerSize |-> 2, weightPush |-> 25, weightPull |-> 25,
     weightHistory |-> 50, ChallengeDifficulty |-> 9, RoundsBetweenPings |-> 1]

Configs == {WholeSharesConfig, SmallHistoryConfig}

\* alphaBetaGamma: the checks on the weights of an accepted configuration
ConfigAccepted(c) ==
    /\ c.weightPush > 0 /\ c.weightPull > 0 /\ c.weightHistory > 0
    /\ c.weightPush + c.weightPull + c.weightHistory - 100 = 0

\* math.Round(float64(size) * weight / 100.0): half away from zero
RoundWeighted(size, weight) ==
    LET a == size * weight
    IN  IF a >= 0 THEN (2 * a + 100) \div 200
        ELSE 0 - ((2 * (0 - a) + 100) \div 200)

AlphaL1(c) == RoundWeighted(c.ViewSize, c.weightPush)
BetaL1(c) == RoundWeighted(c.ViewSize, c.weightPull)
GammaL1(c) == RoundWeighted(c.ViewSize, c.weightHistory)

(***************************************************************************)
(* Packets as the handlers see them, after decryption, signature check and *)
(* parsing.  The header (type, sender) selects the handler; the body is    *)
(* whatever the peer chose and enters the model at the step that reads it. *)
(***************************************************************************)
NoNode == [id |-> -1, addr |-> -1]

Packet(type, sender, challenge, nonce, difficulty, node, nodes, ttl, dataType, data) ==
    [type |-> type, sender |-> sender, challenge |-> challenge, nonce |-> nonce,
     difficulty |-> difficulty, node |-> node, nodes |-> nodes, ttl |-> ttl,
     dataType |-> dataType, data |-> data]

NoPkt == Packet("none", -1, BogusChallenge, 0, 0, NoNode, <<>>, 0, 0, 0)

\* a datagram of which only the header has been read
Header(type, sender) == Packet(type, sender, BogusChallenge, 0, 0, NoNode, <<>>, 0, 0, 0)

PacketPullResponse(sender, nodes) ==
    Packet("PullResponse", sender, BogusChallenge, 0, 0, NoNode, nodes, 0, 0, 0)
PacketPushRequest(sender) ==
    Packet("PushRequest", sender, BogusChallenge, 0, 0, NoNode, <<>>, 0, 0, 0)
PacketPushChallenge(sender, difficulty, challenge) ==
    Packet("PushChallenge", sender, challenge, 0, difficulty, NoNode, <<>>, 0, 0, 0)
PacketPush(sender, challenge, nonce, node) ==
    Packet("Push", sender, challenge, nonce, 0, node, <<>>, 0, 0, 0)
PacketMessage(sender, ttl, dataType, data) ==
    Packet("Message", sender, BogusChallenge, 0, 0, NoNode, <<>>, ttl, dataType, data)


VARIABLES
    cfg,               \* Gossip.cfg / Server.cfg
    status,            \* of Gossip.Start: "running", "returned", "panicked"
    pc,                \* position of the round loop of Gossip.Start
    round,             \* Gossip.Start: round
    mainView,          \* Gossip.mainView.nodes
    pullFromNodes,     \* Gossip.Start: pullFromNodes
    sendIdx,           \* Gossip.Start: position in the loop over pullFromNodes
    pushViewNodes,     \* Gossip.Start: pushViewNodes
    pullViewNodes,     \* Gossip.Start: pullViewNodes
    pushView,          \* Gossip.pushView.nodes
    pullView,          \* Gossip.pullView.nodes
    pushDrain,         \* node the goroutine draining pushNodes has received
    pullDrain,         \* node the goroutine draining pullNodes has received
    peerState,         \* Server.peerState
    pullResponseNodes, \* Server.pullResponseNodes
    samplers,          \* Gossip.samplerGroup.samplers
    keyRotation,       \* Challenger.keyRotation
    nextKey,           \* the next fresh key rand.Read produces
    messagesToSpread,  \* Server.messagesToSpread
    mutexMessages,     \* Server.mutexMessages: "free" or "locked"
    hd,                \* the goroutines of handleIncomingBytes, one per datagram: a bag
    pullSent,          \* history: peers sent a PullRequest since the last reset
    pushReqSent,       \* history: peers sent a PushRequest since the last reset
    enqueued,          \* history: nodes each peer's Pushes enqueued since the last reset
    pings,             \* the goroutines of the ping phase of the round (Gossip.Start)
    pongChannels,      \* Server.pongChannels: key -> tokens in the buffered channel
    notified,          \* api.Server.gossipValidationHandlers: hashes with a callback
    boundaries,        \* history: calls of ResetPeerStates that decayed the store
    spreadLog,         \* history: the announcements, each with the boundary count it saw
    storedPkt,         \* history: the Message packet whose entry was stored last
    sent,              \* history: the Message packets sent, each with its store entry
    netStore,          \* messagesToSpread of each node of a chain of nodes
    netRound,          \* rounds each node of the chain has begun
    fed,               \* history: identities passed to SamplerGroup.Update since Init
    viewNodes,         \* View.nodes of a view its callers share
    viewMu,            \* View.mu of that view: "free" or "locked"
    viewCalls,         \* the calls of Append, Clear and GetAll on that view under way
    appended,          \* history: nodes Append has added to it since the last Clear
    published,         \* history: the lists UpdatePullResponseNodes was called with
    admitted,          \* history: nodes of the Pushes and PullResponses admitted since the last reset
    consecutiveOutgoingMessageID,  \* api: the id of the next GossipNotification
    gossipValidationHandlers,      \* api.Server.gossipValidationHandlers
    notifications,     \* the handleMessage goroutines between storing and notifying
    validations        \* history: the GossipValidation packets handled and the callbacks each called

vars == <<cfg, status, pc, round, mainView, pullFromNodes, sendIdx,
          pushViewNodes, pullViewNodes, pushView, pullView, pushDrain, pullDrain,
          peerState, pullResponseNodes, samplers, keyRotation, nextKey, messagesToSpread,
          mutexMessages, hd, pullSent, pushReqSent, enqueued, pings, pongChannels,
          notified, boundaries, spreadLog, storedPkt, sent, netStore, netRound,
          fed, viewNodes, viewMu, viewCalls, appended, published,
          admitted, consecutiveOutgoingMessageID, gossipValidationHandlers,
          notifications, validations>>

engineVars == <<status, pc, round, mainView, pullFromNodes, sendIdx,
                pushViewNodes, pullViewNodes>>
viewVars == <<pushView, pullView, pushDrain, pullDrain>>
challengerVars == <<keyRotation, nextKey>>
messageVars == <<messagesToSpread, mutexMessages>>
historyVars == <<pullSent, pushReqSent, enqueued, admitted>>
pingVars == <<pings, pongChannels>>
storeHistoryVars == <<boundaries, spreadLog, storedPkt, sent, notified>>
netVars == <<netStore, netRound>>
viewCallVars == <<viewNodes, viewMu, viewCalls, appended>>
apiVars == <<consecutiveOutgoingMessageID, gossipValidationHandlers, notifications, validations>>
unitVars == <<fed, viewCallVars, published, apiVars>>
restVars == <<pingVars, storeHistoryVars, netVars, unitVars>>

\* parseBootstrapNodesStr: the bootstrap node of the configuration file
BootstrapNodes == <<Node(1)>>

(***************************************************************************)
(* Sampler, SamplerGroup                                                   *)
(***************************************************************************)
NilNode == NoNode

\* the bias rand.Read gives a sampler
Biases == {0}

\* SHA-256(bias || identity), as the rank bytes.Compare gives it among the
\* hashes of one bias: for a fixed bias no two identities share a rank
HashBiasId(bias, identity) == (identity + bias) % Cardinality(Ids)

\* Sampler.Init with the bias rand.Read produced
SamplerInit(bias) == [bias |-> bias, elem |-> NilNode, currentElemHash |-> -1]

\* a sampler that keeps the first node of its stream whatever the hashes are
SamplerNextKeepsFirst(s, newElem) ==
    IF s.elem = NilNode
      THEN [s EXCEPT !.elem = newElem,
                     !.currentElemHash = HashBiasId(s.bias, newElem.id)]
      ELSE s

\* Sampler.Next
SamplerNext(s, newElem) ==
    LET newHash == HashBiasId(s.bias, newElem.id)
    IN  IF s.elem = NilNode \/ newHash < s.currentElemHash
          THEN [s EXCEPT !.elem = newElem, !.currentElemHash = newHash]
          ELSE s

\* Sampler.Sample
Sample(s) == s.elem

\* SamplerGroup.Update
RECURSIVE SamplerGroupUpdate(_, _)
SamplerGroupUpdate(sg, newElems) ==
    IF Len(newElems) = 0 THEN sg
    ELSE SamplerGroupUpdate([i \in 1..Len(sg) |-> SamplerNext(sg[i], Head(newElems))],
                            Tail(newElems))

\* the goroutines the ping phase of Gossip.Start starts: one for the first
\* sampler of each distinct sample, with movedSampler := sampler, a copy of
\* the element of the slice []Sampler
PingTasks(sg) ==
    {[node |-> Sample(sg[i]), moved |-> sg[i], pc |-> "start", res |-> "none",
      ponged |-> FALSE] :
        i \in {k \in 1..Len(sg) :
                  /\ Sample(sg[k]) # NilNode
                  /\ \A j \in 1..(k - 1) : Sample(sg[j]) # Sample(sg[k])}}

\* if round%g.cfg.RoundsBetweenPings == 0 { ... }
PingPhase(c, r, sg) == IF r % c.RoundsBetweenPings = 0 THEN PingTasks(sg) ELSE {}

\* the nodes of a chain: node h is h forwarding hops away from node 0
NetNodes == 0..MaxHops

\* nothing admitted since ResetPeerStates: the nodes of the admitted Pushes,
\* the nodes of the admitted PullResponses, and the senders of those that hold a node
NoneAdmitted == [push |-> <<>>, pull |-> <<>>, responders |-> <<>>]

\* the node under configuration c with the message store msgs, at the start of a round
Running(c, msgs) ==
    /\ cfg = c
    /\ status = "running"
    /\ pc = "reset"
    /\ round = 1
    /\ mainView = BootstrapNodes
    /\ pullFromNodes = <<>>
    /\ sendIdx = 1
    /\ pushViewNodes = <<>>
    /\ pullViewNodes = <<>>
    /\ pushView = <<>>
    /\ pullView = <<>>
    /\ pushDrain = NoNode
    /\ pullDrain = NoNode
    /\ peerState = [p \in Peers |-> {}]
    /\ pullResponseNodes = <<>>
    /\ \E biases \in [1..cfg.SamplerSize -> Biases] :
          samplers = SamplerGroupUpdate([i \in 1..cfg.SamplerSize |-> SamplerInit(biases[i])],
                                        BootstrapNodes)
    /\ keyRotation = <<1>>
    /\ nextKey = 2
    /\ messagesToSpread = msgs
    /\ mutexMessages = "free"
    /\ hd = EmptyBag
    /\ pullSent = {}
    /\ pushReqSent = {}
    /\ enqueued = [p \in Peers |-> 0]
    /\ admitted = NoneAdmitted
    /\ pings = {}
    /\ pongChannels = [key \in {} |-> 0]
    /\ notified = {}
    /\ boundaries = 0
    /\ spreadLog = <<>>
    /\ storedPkt = NoPkt
    /\ sent = {}
    /\ netStore = [h \in NetNodes |-> <<>>]
    /\ netRound = [h \in NetNodes |-> 0]
    /\ fed = Identities(BootstrapNodes)
    /\ viewNodes = <<>>
    /\ viewMu = "free"
    /\ viewCalls = {}
    /\ appended = <<>>
    /\ published = {}
    /\ consecutiveOutgoingMessageID = 0
    /\ gossipValidationHandlers = <<>>
    /\ notifications = {}
    /\ validations = {}

\* NewGossip, NewServer, NewChallenger under an accepted configuration
Init == \E c \in {c0 \in Configs : ConfigAccepted(c0)} : Running(c, <<>>)

\* the node started with the configuration of whole shares
InitWholeShares == Init /\ cfg = WholeSharesConfig

\* the process is alive: Start has not returned (main then exits) nor panicked
Alive == status = "running"

(***************************************************************************)
(* Peer state                                                              *)
(***************************************************************************)
\* Server.hasPeerCondition
hasPeerCondition(ps, identity, condition) == condition \in ps[identity]

\* Server.addPeerCondition
addPeerCondition(ps, identity, condition) ==
    [ps EXCEPT ![identity] = @ \cup {condition}]

(***************************************************************************)
(* The packets remote peers send.  A peer signs with its own key, so the   *)
(* sender identity of a packet that reaches a handler is the peer's own;    *)
(* every other field is the peer's choice.                                  *)
(***************************************************************************)
\* keys whose challenges a peer presents: every key generated so far
PresentedKeys == 1..(nextKey - 1)

\* challenges a peer can present: those issued to any peer identity, and one
\* the local node never issued
KnownChallenges ==
    {HashKeyId(k, i) : k \in PresentedKeys, i \in Peers} \cup {BogusChallenge}

\* nonces a peer puts into a Push
Nonces == {0, 1}

\* difficulties a peer asks for in a PushChallenge: one the solver can meet, one it cannot
PeerDifficulties == {9, 11}

\* time-to-live values, data types and payloads a peer puts into a Message
TTLs == {0, 2}
DataTypes == {1}
Payloads == {1}

PullResponsePackets ==
    {PacketPullResponse(p, nodes) :
        p \in Peers, nodes \in {<<>>} \cup {<<Node(q)>> : q \in Peers}}
PushRequestPackets == {PacketPushRequest(p) : p \in Peers}
PushChallengePackets ==
    {PacketPushChallenge(p, d, HashKeyId(0, Self)) : p \in Peers, d \in PeerDifficulties}
PushPackets ==
    {PacketPush(p, c, n, Node(q)) :
        p \in Peers, c \in KnownChallenges, n \in Nonces, q \in Peers}
MessagePackets ==
    {PacketMessage(p, t, ty, d) :
        p \in Peers, t \in TTLs, ty \in DataTypes, d \in Payloads}

\* the datagrams of a type as they arrive, before a handler has read the body
PullResponseHeaders == {Header("PullResponse", p) : p \in Peers}
PushHeaders == {Header("Push", p) : p \in Peers}
MessageHeaders == {Header("Message", p) : p \in Peers}
PullRequestHeaders == {Header("PullRequest", p) : p \in Peers}
PongHeaders == {Header("Pong", p) : p \in Peers}

\* the first position of the handler of a packet type (switch of handleIncomingBytes)
HandlerEntry(type) ==
    CASE type = "PullResponse" -> "pr_check"
      [] type = "PushRequest" -> "pushreq"
      [] type = "PushChallenge" -> "pushchallenge"
      [] type = "Push" -> "push_check"
      [] type = "Message" -> "msg_check"
      [] type = "PullRequest" -> "pullreq"
      [] type = "Pong" -> "pong"

\* the goroutines started so far, running or returned
Goroutines == BagToSet(hd)

\* a goroutine of handleIncomingBytes at the start of the handler of pkt
Handler(pkt) == [pc |-> HandlerEntry(pkt.type), pkt |-> pkt, res |-> "none", i |-> 0]

\* goroutine g takes a step that leaves it as g2
Step(g, g2) == (hd (-) SetToBag({g})) (+) SetToBag({g2})

\* the handler returns and its goroutine ends; res keeps how it ended
Done(g, res) == Step(g, [pc |-> "done", pkt |-> NoPkt, res |-> res, i |-> 0])
Goto(g, to) == Step(g, [g EXCEPT !.pc = to])

\* the packets of a set that carry the header of the datagram of goroutine g
Bodies(g, packets) == {pkt \in packets : pkt.sender = g.pkt.sender}
\* goroutine g has read the body pkt and goes on at position to
Read(g, pkt, to) == Step(g, [g EXCEPT !.pc = to, !.pkt = pkt])

\* listenForPackets: go s.handleIncomingBytes(...) starts a goroutine for the
\* datagram, which reaches the handler of its type
Receive(pkt) ==
    /\ Alive
    /\ BagCardinality(hd) < MaxPackets
    /\ hd' = hd (+) SetToBag({Handler(pkt)})
    /\ UNCHANGED <<cfg, restVars, samplers, engineVars, viewVars, peerState, pullResponseNodes,
                   challengerVars, messageVars, historyVars>>

(***************************************************************************)
(* handlePullResponse                                                      *)
(***************************************************************************)
\* a handlePullResponse that asks for the wrong condition
PullResponseAdmittedAfterMessage(ps, identity) == hasPeerCondition(ps, identity, AllowMessage)

\* the guard of handlePullResponse on a peer state
PullResponseAdmitted(ps, identity) == hasPeerCondition(ps, identity, AllowPull)

\* if !s.hasPeerCondition(packet.SenderIdentity, AllowPull) { return }
HandlePullResponseCheck(g) ==
    /\ Alive
    /\ g.pc = "pr_check"
    /\ hd' = IF PullResponseAdmitted(peerState, g.pkt.sender)
               THEN Goto(g, "pr_allow")
               ELSE Done(g, "dropped")
    /\ UNCHANGED <<cfg, restVars, samplers, engineVars, viewVars, peerState, pullResponseNodes,
                   challengerVars, messageVars, historyVars>>

\* s.addPeerCondition(packet.SenderIdentity, AllowMessage)
HandlePullResponseAllowOf(g, packets) ==
    /\ Alive
    /\ g.pc = "pr_allow"
    /\ peerState' = addPeerCondition(peerState, g.pkt.sender, AllowMessage)
    /\ \E pkt \in Bodies(g, packets) :
          /\ hd' = IF Len(pkt.nodes) = 0
                     THEN Done(g, "accepted")
                     ELSE Step(g, [g EXCEPT !.pc = "pr_send", !.pkt = pkt, !.i = 1])
          /\ admitted' = [admitted EXCEPT !.pull = @ \o pkt.nodes,
                                          !.responders = IF Len(pkt.nodes) = 0
                                                           THEN @
                                                           ELSE Append(@, g.pkt.sender)]
    /\ UNCHANGED <<cfg, restVars, samplers, engineVars, viewVars, pullResponseNodes,
                   challengerVars, messageVars, pullSent, pushReqSent, enqueued>>

\* handlePullResponse on the PullResponse packets any peer can send
HandlePullResponseAllow(g) == HandlePullResponseAllowOf(g, PullResponsePackets)

\* s.pullNodes <- node: the unbuffered channel hands the node to the draining goroutine
HandlePullResponseSend(g) ==
    /\ Alive
    /\ g.pc = "pr_send"
    /\ pullDrain = NoNode
    /\ pullDrain' = g.pkt.nodes[g.i]
    /\ hd' = IF g.i = Len(g.pkt.nodes)
               THEN Done(g, "accepted")
               ELSE Step(g, [g EXCEPT !.i = @ + 1])
    /\ UNCHANGED <<cfg, restVars, samplers, engineVars, pushView, pullView, pushDrain, peerState,
                   pullResponseNodes, challengerVars, messageVars, historyVars>>

\* Gossip.Start, go func: g.pullView.Append(node)
PullDrainAppend ==
    /\ Alive
    /\ pullDrain # NoNode
    /\ pullView' = Append(pullView, pullDrain)
    /\ pullDrain' = NoNode
    /\ UNCHANGED <<cfg, restVars, samplers, engineVars, pushView, pushDrain, peerState, pullResponseNodes,
                   challengerVars, messageVars, hd, historyVars>>

(***************************************************************************)
(* handlePushRequest, handlePushChallenge                                  *)
(***************************************************************************)
\* handlePushRequest: a PushChallenge with a challenge of the newest key is
\* sent to the requester; no state of the server changes
HandlePushRequest(g) ==
    /\ Alive
    /\ g.pc = "pushreq"
    /\ hd' = Done(g, "challenged")
    /\ UNCHANGED <<cfg, restVars, samplers, engineVars, viewVars, peerState, pullResponseNodes,
                   challengerVars, messageVars, historyVars>>

\* challenge.SolveChallenge: the nonces it can return (the first nonce, counted
\* from 0, whose hash has enough leading zero bits); none when the deadline of
\* challengeMaxSolveTime fires first
SolveChallenge(challenge, difficulty) ==
    LET good == {n \in Nonces : countLeadingZeros(HashChallengeNonce(challenge, n)) >= difficulty}
    IN  {n \in good : \A m \in good : n <= m}

\* the guard of handlePushChallenge on a peer state
PushChallengeAdmitted(ps, identity) == hasPeerCondition(ps, identity, AllowPushChallenge)

\* handlePushChallenge: drop unless AllowPushChallenge, else solve, send the
\* Push with the own node and the stored messages
HandlePushChallenge(g) ==
    /\ Alive
    /\ g.pc = "pushchallenge"
    /\ IF ~PushChallengeAdmitted(peerState, g.pkt.sender)
         THEN hd' = Done(g, "dropped")
       ELSE IF SolveChallenge(g.pkt.challenge, g.pkt.difficulty) = {}
         THEN hd' = Done(g, "unsolved")
       ELSE /\ mutexMessages = "free"
            /\ hd' = Done(g, "pushed")
    /\ UNCHANGED <<cfg, restVars, samplers, engineVars, viewVars, peerState, pullResponseNodes,
                   challengerVars, messageVars, historyVars>>

(***************************************************************************)
(* handlePush                                                              *)
(***************************************************************************)
\* the guard of handlePush on a peer state
PushDenied(ps, identity) == hasPeerCondition(ps, identity, DenyPush)

\* if s.hasPeerCondition(packet.SenderIdentity, DenyPush) { return }
HandlePushCheck(g) ==
    /\ Alive
    /\ g.pc = "push_check"
    /\ hd' = IF PushDenied(peerState, g.pkt.sender)
               THEN Done(g, "denied")
               ELSE Goto(g, "push_deny")
    /\ UNCHANGED <<cfg, restVars, samplers, engineVars, viewVars, peerState, pullResponseNodes,
                   challengerVars, messageVars, historyVars>>

\* the peer state after a Push of identity passed the DenyPush guard
PushDenyState(ps, identity) == addPeerCondition(ps, identity, DenyPush)

\* a handlePush that accepts the node of any known identity
PushesAnyNode(pkt) == pkt.node.id \in Ids

\* bytes.Equal(packet.SenderIdentity.ToBytes(), packet.Node.Identity.ToBytes())
PushesOwnNode(pkt) == pkt.sender = pkt.node.id

\* challengeOk of handlePush: IsSolvedCorrectly with the configured difficulty
ChallengeOk(keys, pkt, difficulty) ==
    IsSolvedCorrectly(keys, pkt.challenge, pkt.nonce, pkt.sender, difficulty).ok

\* s.addPeerCondition(packet.SenderIdentity, DenyPush), then IsSolvedCorrectly
\* and the comparison of the pushed node with the sender.  The verification
\* reads the packet and the key rotation only, so it is taken in the step of
\* the addPeerCondition that precedes it.
HandlePushDeny(g) ==
    /\ Alive
    /\ g.pc = "push_deny"
    /\ peerState' = PushDenyState(peerState, g.pkt.sender)
    /\ \E pkt \in Bodies(g, PushPackets) :
          hd' = IF ~ChallengeOk(keyRotation, pkt, cfg.ChallengeDifficulty)
                  THEN Done(g, "badchallenge")
                ELSE IF ~PushesOwnNode(pkt) THEN Done(g, "thirdparty")
                ELSE Read(g, pkt, "push_allow")
    /\ UNCHANGED <<cfg, restVars, samplers, engineVars, viewVars, pullResponseNodes,
                   challengerVars, messageVars, historyVars>>

\* s.addPeerCondition(packet.SenderIdentity, AllowMessage)
HandlePushAllow(g) ==
    /\ Alive
    /\ g.pc = "push_allow"
    /\ peerState' = addPeerCondition(peerState, g.pkt.sender, AllowMessage)
    /\ hd' = Goto(g, "push_send")
    /\ admitted' = [admitted EXCEPT !.push = Append(@, g.pkt.node)]
    /\ UNCHANGED <<cfg, restVars, samplers, engineVars, viewVars, pullResponseNodes,
                   challengerVars, messageVars, pullSent, pushReqSent, enqueued>>

\* s.pushNodes <- packet.Node: the unbuffered channel hands the node to the draining goroutine
HandlePushSend(g) ==
    /\ Alive
    /\ g.pc = "push_send"
    /\ pushDrain = NoNode
    /\ pushDrain' = g.pkt.node
    /\ hd' = Done(g, "accepted")
    /\ enqueued' = [enqueued EXCEPT ![g.pkt.sender] = @ + 1]
    /\ UNCHANGED <<cfg, restVars, samplers, engineVars, pushView, pullView, pullDrain, peerState,
                   pullResponseNodes, challengerVars, messageVars, pullSent, pushReqSent,
                   admitted>>

\* Gossip.Start, go func: g.pushView.Append(node)
PushDrainAppend ==
    /\ Alive
    /\ pushDrain # NoNode
    /\ pushView' = Append(pushView, pushDrain)
    /\ pushDrain' = NoNode
    /\ UNCHANGED <<cfg, restVars, samplers, engineVars, pullView, pullDrain, peerState, pullResponseNodes,
                   challengerVars, messageVars, hd, historyVars>>

(***************************************************************************)
(* handleMessage, spreadMessage                                            *)
(***************************************************************************)
\* a handleMessage that asks for the wrong condition
MessageAdmittedAfterPull(ps, identity) == hasPeerCondition(ps, identity, AllowPull)

\* the guard of handleMessage on a peer state
MessageAdmitted(ps, identity) == hasPeerCondition(ps, identity, AllowMessage)

\* if !s.hasPeerCondition(packet.SenderIdentity, AllowMessage) { return }
HandleMessageCheck(g) ==
    /\ Alive
    /\ g.pc = "msg_check"
    /\ hd' = IF MessageAdmitted(peerState, g.pkt.sender)
               THEN Goto(g, "msg_store")
               ELSE Done(g, "dropped")
    /\ UNCHANGED <<cfg, restVars, samplers, engineVars, viewVars, peerState, pullResponseNodes,
                   challengerVars, messageVars, historyVars>>

\* a store entry that keeps no infinite local time to live
ReceivedMessageFinite(pkt) ==
    LET newTTL == IF pkt.ttl # 0 THEN pkt.ttl - 1 ELSE 0
    IN  [LocalTTL |-> newTTL, TTL |-> newTTL, DataType |-> pkt.dataType, Data |-> pkt.data,
         DataHash |-> HashData(pkt.data), SourceIdentity |-> pkt.sender]

\* a handleMessage that stores the time-to-live of the packet as it came
ReceivedMessageSameTTL(pkt) ==
    [LocalTTL |-> pkt.ttl, TTL |-> pkt.ttl, DataType |-> pkt.dataType, Data |-> pkt.data,
     DataHash |-> HashData(pkt.data), SourceIdentity |-> pkt.sender]

\* the spreadableMessage handleMessage stores for a packet
ReceivedMessage(pkt) ==
    LET newTTL == IF pkt.ttl # 0 THEN pkt.ttl - 1 ELSE 0
        localTTL == IF pkt.ttl # 0 THEN newTTL ELSE InfiniteLocalTTL
    IN  [LocalTTL |-> localTTL, TTL |-> newTTL, DataType |-> pkt.dataType, Data |-> pkt.data,
         DataHash |-> HashData(pkt.data), SourceIdentity |-> pkt.sender]

\* the loop of handleMessage over the store: is the packet already known
MessageKnown(msgs, pkt) ==
    \E k \in 1..Len(msgs) :
        msgs[k].DataType = pkt.dataType /\ msgs[k].DataHash = HashData(pkt.data)

\* the loop of handleMessage over the store: messagesSameSource
MessagesSameSource(msgs, pkt) ==
    Cardinality({k \in 1..Len(msgs) : msgs[k].SourceIdentity = pkt.sender})

\* api.Server.SendGossipNotifications for a stored packet: the handlers with
\* a validation callback, each closed over the data hash of its message (an
\* API client has registered for the data type)
Notified(handlers, pkt) == handlers \cup {HashData(pkt.data)}

\* s.mutexMessages.Lock() ... : a known message and a flooding source make the
\* handler return without s.mutexMessages.Unlock(); a stored message is
\* forwarded to the API clients once the lock is released
MessageStore(g, packets) ==
    /\ Alive
    /\ g.pc = "msg_store"
    /\ mutexMessages = "free"
    /\ \E pkt \in Bodies(g, packets) :
           IF MessageKnown(messagesToSpread, pkt)
             THEN /\ mutexMessages' = "locked"
                  /\ hd' = Done(g, "known")
                  /\ UNCHANGED <<messagesToSpread, storedPkt, notified>>
           ELSE IF MessagesSameSource(messagesToSpread, pkt) > FloodLimit
             THEN /\ mutexMessages' = "locked"
                  /\ hd' = Done(g, "flood")
                  /\ UNCHANGED <<messagesToSpread, storedPkt, notified>>
           ELSE /\ messagesToSpread' = Append(messagesToSpread, ReceivedMessage(pkt))
                /\ mutexMessages' = "free"
                /\ storedPkt' = pkt
                /\ notified' = Notified(notified, pkt)
                /\ hd' = Done(g, "stored")
    /\ UNCHANGED <<cfg, samplers, engineVars, viewVars, peerState, pullResponseNodes,
                   challengerVars, historyVars, pingVars, netVars, boundaries, spreadLog,
                   sent>>

\* handleMessage from the lock on, for the messages of MessagePackets
HandleMessageStore(g) == MessageStore(g, MessagePackets) /\ UNCHANGED unitVars

\* the spreadableMessage spreadMessage stores for an announcement
AnnouncedMessage(ttl, dataType, data) ==
    [LocalTTL |-> ttl, TTL |-> ttl, DataType |-> dataType, Data |-> data,
     DataHash |-> HashData(data), SourceIdentity |-> Self]

\* the entries of the store the local API client announced
Announced(msgs) == {k \in 1..Len(msgs) : msgs[k].SourceIdentity = Self}

\* spreadMessage: the API client announces a message
Spread(ttl, dataType, data) ==
    /\ Alive
    /\ Cardinality(Announced(messagesToSpread)) < MaxAnnounce
    /\ Len(spreadLog) <= MaxAnnounce
    /\ mutexMessages = "free"
    /\ messagesToSpread' = Append(messagesToSpread, AnnouncedMessage(ttl, dataType, data))
    /\ spreadLog' = Append(spreadLog, [at |-> boundaries, ttl |-> ttl])
    /\ UNCHANGED <<cfg, unitVars, samplers, engineVars, viewVars, peerState, pullResponseNodes,
                   challengerVars, mutexMessages, hd, historyVars, pingVars, netVars,
                   boundaries, storedPkt, sent, notified>>

(***************************************************************************)
(* Challenger.startTicker                                                  *)
(***************************************************************************)
\* a rotation that never drops a key
RotateKeepsAll(keys, newKey) == Append(keys, newKey)

\* the key list after a tick that generated newKey
Rotate(keys, newKey) ==
    IF Len(keys) < R THEN Append(keys, newKey)
    ELSE Append(Tail(keys), newKey)

Tick ==
    /\ Alive
    /\ nextKey <= MaxTicks + 1
    /\ keyRotation' = Rotate(keyRotation, nextKey)
    /\ nextKey' = nextKey + 1
    /\ UNCHANGED <<cfg, restVars, samplers, engineVars, viewVars, peerState, pullResponseNodes,
                   messageVars, hd, historyVars>>

(***************************************************************************)
(* The round loop of Gossip.Start                                          *)
(***************************************************************************)
\* the sequences of n distinct positions of a slice of the given length
Picks(length, n) ==
    {f \in [1..n -> 1..length] : \A a, b \in 1..n : a # b => f[a] # f[b]}

\* randSubset: [err, results]; results are the slices the shuffle can return
RECURSIVE randSubset(_, _)
randSubset(nodes, n) ==
    IF n = 0 THEN [err |-> FALSE, results |-> {<<>>}]
    ELSE IF n > Len(nodes) THEN randSubset(nodes, Len(nodes))
    ELSE IF n < 0 THEN [err |-> TRUE, results |-> {}]
    ELSE [err |-> FALSE,
          results |-> {[k \in 1..n |-> nodes[f[k]]] : f \in Picks(Len(nodes), n)}]

\* the copySlice of RandomNodeSubset before the shuffle: make([]*Sampler, len)
\* followed by the appended pointers; 0 is the nil pointer, k > 0 is &sg.samplers[k-1]
SamplerCopySlice(sg) ==
    [k \in 1..(2 * Len(sg)) |-> IF k <= Len(sg) THEN 0 ELSE k - Len(sg)]

\* SamplerGroup.RandomNodeSubset: [kind, results] with kind "err", "panic"
\* (Sample on a nil *Sampler) or "ok"; an "ok" result is make([]*Node, n)
\* followed by the appended samples
RandomNodeSubset(sg, n) ==
    IF n > Len(sg) \/ n <= 0 THEN [kind |-> "err", results |-> {}]
    ELSE LET copySlice == SamplerCopySlice(sg)
             \* the shuffle permutes the first n entries of copySlice
             shuffled == {[k \in 1..n |-> copySlice[f[k]]] : f \in Picks(n, n)}
         IN  IF \E c \in shuffled : \E k \in 1..n : c[k] = 0
               THEN [kind |-> "panic", results |-> {}]
               ELSE [kind |-> "ok",
                     results |-> {[k \in 1..(2 * n) |->
                                     IF k <= n THEN NilNode ELSE Sample(sg[c[k - n]])] :
                                  c \in shuffled}]

\* Gossip.trimDuplicates over the concatenated lists: [panic, nodes];
\* node.String() on a nil *Node panics
RECURSIVE trimDuplicatesFrom(_, _, _)
trimDuplicatesFrom(nodes, k, result) ==
    IF k > Len(nodes) THEN [panic |-> FALSE, nodes |-> result]
    ELSE IF nodes[k] = NilNode THEN [panic |-> TRUE, nodes |-> result]
    ELSE IF \E j \in 1..Len(result) : result[j] = nodes[k]
      THEN trimDuplicatesFrom(nodes, k + 1, result)
    ELSE trimDuplicatesFrom(nodes, k + 1, Append(result, nodes[k]))

trimDuplicates(pullSubset, pushSubset, samplerSubset) ==
    trimDuplicatesFrom(pullSubset \o pushSubset \o samplerSubset, 1, <<>>)

\* a decay that keeps an entry until its LocalTTL is below -24
DecayMessagesLate(msgs) ==
    SelectSeq([k \in 1..Len(msgs) |-> [msgs[k] EXCEPT !.LocalTTL = @ - 1]],
              LAMBDA msg : msg.LocalTTL >= 0 - EvictBelow)

\* the decayed store of ResetPeerStates
RECURSIVE DecayMessages(_)
DecayMessages(msgs) ==
    IF Len(msgs) = 0 THEN <<>>
    ELSE LET msg == [Head(msgs) EXCEPT !.LocalTTL = @ - 1]
         IN  IF msg.LocalTTL > 0 - EvictBelow
               THEN <<msg>> \o DecayMessages(Tail(msgs))
               ELSE DecayMessages(Tail(msgs))

\* ResetPeerStates: s.peerState = make(map[string][]peerCondition)
EngineReset ==
    /\ Alive
    /\ pc = "reset"
    /\ peerState' = [p \in Peers |-> {}]
    /\ pullSent' = {}
    /\ pushReqSent' = {}
    /\ enqueued' = [p \in Peers |-> 0]
    /\ admitted' = NoneAdmitted
    /\ pc' = "decay"
    /\ UNCHANGED <<cfg, restVars, samplers, status, round, mainView, pullFromNodes,
                   sendIdx, pushViewNodes, pullViewNodes, viewVars, pullResponseNodes,
                   challengerVars, messageVars, hd>>

\* ResetPeerStates: s.mutexMessages.Lock(), decay, Unlock()
EngineDecay ==
    /\ Alive
    /\ pc = "decay"
    /\ mutexMessages = "free"
    /\ messagesToSpread' = DecayMessages(messagesToSpread)
    /\ boundaries' = boundaries + 1
    /\ pc' = "clear"
    /\ UNCHANGED <<cfg, unitVars, samplers, status, round, mainView, pullFromNodes,
                   sendIdx, pushViewNodes, pullViewNodes, viewVars, peerState,
                   pullResponseNodes, challengerVars, mutexMessages, hd, historyVars,
                   pingVars, netVars, spreadLog, storedPkt, sent, notified>>

\* g.pushView.Clear(); g.pullView.Clear() (no other step touches both views,
\* so the two calls are taken as one step)
EngineClear ==
    /\ Alive
    /\ pc = "clear"
    /\ pushView' = <<>>
    /\ pullView' = <<>>
    /\ pc' = "requests"
    /\ UNCHANGED <<cfg, restVars, samplers, status, round, mainView, pullFromNodes,
                   sendIdx, pushViewNodes, pullViewNodes, pushDrain, pullDrain,
                   peerState, pullResponseNodes, challengerVars, messageVars, hd,
                   historyVars>>

\* mainViewNodes := g.mainView.GetAll(); UpdatePullResponseNodes(mainViewNodes);
\* randSubset(mainViewNodes, g.AlphaL1()) and SendPushRequest to each;
\* pullFromNodes, err := randSubset(mainViewNodes, g.BetaL1())
EngineRequestsUpTo(lastRound) ==
    /\ Alive
    /\ pc = "requests"
    /\ round <= lastRound
    /\ pullResponseNodes' = mainView
    /\ published' = published \cup {mainView}
    /\ LET rPush == randSubset(mainView, AlphaL1(cfg))
           rPull == randSubset(mainView, BetaL1(cfg))
       IN  IF rPush.err \/ rPull.err
             THEN /\ status' = "returned"
                  /\ UNCHANGED <<pc, pushReqSent, pullFromNodes, sendIdx>>
             ELSE /\ \E pushToNodes \in rPush.results :
                        pushReqSent' = pushReqSent \cup
                            {pushToNodes[k].id : k \in 1..Len(pushToNodes)}
                  /\ pullFromNodes' \in rPull.results
                  /\ sendIdx' = 1
                  /\ pc' = IF Len(pullFromNodes') = 0 THEN "aggregate" ELSE "pullSend"
                  /\ UNCHANGED status
    /\ pings' = PingPhase(cfg, round, samplers)
    /\ UNCHANGED <<cfg, fed, viewCallVars, apiVars, pongChannels, storeHistoryVars, netVars, samplers, round, mainView,
                   pushViewNodes, pullViewNodes, viewVars, peerState, challengerVars,
                   messageVars, hd, pullSent, enqueued, admitted>>

\* the peer state after SendPullRequest to a node
PullRequestState(ps, identity) == addPeerCondition(ps, identity, AllowPull)

\* for _, node := range pullFromNodes { g.gossipServer.SendPullRequest(node) };
\* after the last one: time.Sleep(1 * time.Second)
EnginePullSend ==
    /\ Alive
    /\ pc = "pullSend"
    /\ peerState' = PullRequestState(peerState, pullFromNodes[sendIdx].id)
    /\ pullSent' = pullSent \cup {pullFromNodes[sendIdx].id}
    /\ sendIdx' = sendIdx + 1
    /\ pc' = IF sendIdx = Len(pullFromNodes) THEN "aggregate" ELSE "pullSend"
    /\ UNCHANGED <<cfg, restVars, samplers, status, round, mainView, pullFromNodes,
                   pushViewNodes, pullViewNodes, viewVars, pullResponseNodes,
                   challengerVars, messageVars, hd, pushReqSent, enqueued, admitted>>

\* the condition of Gossip.Start under which the main view is rebuilt
RebuildCondition(c, pushNodes, pullNodes, pullFrom) ==
    /\ Len(pushNodes) <= AlphaL1(c)
    /\ Len(pushNodes) > 0
    /\ (Len(pullNodes) > 0 \/ Len(pullFrom) = 0)

\* the rebuilds of the main view: [kind, views] with kind "err" (Start returns
\* the error), "panic" or "ok"
Rebuild(c, sg, pushNodes, pullNodes) ==
    LET rPush == randSubset(pushNodes, AlphaL1(c))
        rPull == randSubset(pullNodes, BetaL1(c))
        rSamp == RandomNodeSubset(sg, GammaL1(c))
        trimmed == {trimDuplicates(a, b, d) :
                        a \in rPull.results, b \in rPush.results, d \in rSamp.results}
    IN  IF rPush.err \/ rPull.err \/ rSamp.kind = "err" THEN [kind |-> "err", views |-> {}]
        ELSE IF rSamp.kind = "panic" THEN [kind |-> "panic", views |-> {}]
        ELSE IF \E t \in trimmed : t.panic THEN [kind |-> "panic", views |-> {}]
        ELSE [kind |-> "ok", views |-> {t.nodes : t \in trimmed}]

\* what the aggregation does to the main view: [status, views]
Aggregation(c, sg, view, pushNodes, pullNodes, pullFrom) ==
    IF RebuildCondition(c, pushNodes, pullNodes, pullFrom)
      THEN LET r == Rebuild(c, sg, pushNodes, pullNodes)
           IN  IF r.kind = "err" THEN [status |-> "returned", views |-> {view}]
               ELSE IF r.kind = "panic" THEN [status |-> "panicked", views |-> {view}]
               ELSE [status |-> "running", views |-> r.views]
      ELSE [status |-> "running", views |-> {view}]

\* pushViewNodes := g.pushView.GetAll(); pullViewNodes := g.pullView.GetAll();
\* if len(pushViewNodes) <= g.AlphaL1() && ... { ...; g.mainView = NewView(...) }
EngineAggregate ==
    /\ Alive
    /\ pc = "aggregate"
    /\ pushViewNodes' = pushView
    /\ pullViewNodes' = pullView
    /\ LET r == Aggregation(cfg, samplers, mainView, pushView, pullView, pullFromNodes)
       IN  /\ status' = r.status
           /\ mainView' \in r.views
           /\ pc' = IF r.status = "running" THEN "update" ELSE pc
    /\ UNCHANGED <<cfg, restVars, samplers, round, pullFromNodes, sendIdx,
                   viewVars, peerState, pullResponseNodes,
                   challengerVars, messageVars, hd, historyVars>>

\* samplerWaitGroup.Wait();
\* g.samplerGroup.Update(pushViewNodes); g.samplerGroup.Update(pullViewNodes);
\* round++; the variables of the loop body end with the iteration
EngineUpdate ==
    /\ Alive
    /\ pc = "update"
    /\ \A t \in pings : t.pc = "done"
    /\ pings' = {}
    /\ samplers' = SamplerGroupUpdate(SamplerGroupUpdate(samplers, pushViewNodes),
                                      pullViewNodes)
    /\ round' = round + 1
    /\ pc' = "reset"
    /\ pullFromNodes' = <<>>
    /\ sendIdx' = 1
    /\ pushViewNodes' = <<>>
    /\ pullViewNodes' = <<>>
    /\ fed' = fed \o Identities(pushViewNodes) \o Identities(pullViewNodes)
    /\ UNCHANGED <<cfg, viewCallVars, published, apiVars, pongChannels, storeHistoryVars, netVars, status, mainView, viewVars,
                   peerState, pullResponseNodes, challengerVars, messageVars, hd,
                   historyVars>>

EngineRequests == EngineRequestsUpTo(MaxRound)

\* the round loop, followed up to the round lastRound
EngineUpTo(lastRound) ==
    \/ EngineReset \/ EngineDecay \/ EngineClear \/ EngineRequestsUpTo(lastRound)
    \/ EnginePullSend \/ EngineAggregate \/ EngineUpdate

Engine == EngineUpTo(MaxRound)

(***************************************************************************)
(* Specifications                                                          *)
(***************************************************************************)
PullResponseStep(g) ==
    \/ HandlePullResponseCheck(g) \/ HandlePullResponseAllow(g) \/ HandlePullResponseSend(g)

PushStep(g) ==
    \/ HandlePushCheck(g) \/ HandlePushDeny(g) \/ HandlePushAllow(g) \/ HandlePushSend(g)

MessageStep(g) == HandleMessageCheck(g) \/ HandleMessageStore(g)

\* the push exchange: peers send Push packets
NextPush ==
    \/ Engine
    \/ \E pkt \in PushHeaders : Receive(pkt)
    \/ \E g \in Goroutines : PushStep(g)
    \/ PushDrainAppend

SpecPush == InitWholeShares /\ [][NextPush]_vars

\* the verification of pushes while the challenger rotates its keys; the
\* round loop takes no part in it
NextKeys ==
    \/ \E pkt \in PushHeaders : Receive(pkt)
    \/ \E g \in Goroutines : PushStep(g)
    \/ PushDrainAppend
    \/ Tick

SpecKeys == InitWholeShares /\ [][NextKeys]_vars

\* the requests for a push: peers send PushRequest and PushChallenge packets
NextChallenge ==
    \/ Engine
    \/ \E pkt \in PushRequestPackets \cup PushChallengePackets : Receive(pkt)
    \/ \E g \in Goroutines : HandlePushRequest(g) \/ HandlePushChallenge(g)

SpecChallenge == InitWholeShares /\ [][NextChallenge]_vars

\* the pull exchange and the messages: peers send PullResponse, Push and Message
PullPeerPackets == PullResponseHeaders \cup PushHeaders \cup MessageHeaders

NextPull ==
    \/ Engine
    \/ \E pkt \in PullPeerPackets : Receive(pkt)
    \/ \E g \in Goroutines : PullResponseStep(g)
    \/ \E g \in Goroutines : PushStep(g)
    \/ \E g \in Goroutines : MessageStep(g)
    \/ PushDrainAppend
    \/ PullDrainAppend

SpecPull == InitWholeShares /\ [][NextPull]_vars

\* the rounds of the engine under every accepted configuration
SpecRounds == Init /\ [][NextPull]_vars

\* the messages: the API client announces, peers send PullResponse and Message
NextMessages ==
    \/ Engine
    \/ \E pkt \in PullResponseHeaders \cup MessageHeaders : Receive(pkt)
    \/ \E g \in Goroutines : PullResponseStep(g)
    \/ \E g \in Goroutines : MessageStep(g)
    \/ PullDrainAppend
    \/ \E t \in TTLs : \E ty \in DataTypes : \E d \in Payloads : Spread(t, ty, d)

\* the scheduler runs every goroutine that can take a step: the round loop,
\* the handlers and the goroutine draining the pull channel
FairMessages ==
    /\ WF_vars(Engine)
    /\ WF_vars(\E g \in Goroutines : PullResponseStep(g) \/ MessageStep(g))
    /\ WF_vars(PullDrainAppend)

SpecMessages == InitWholeShares /\ [][NextMessages]_vars /\ FairMessages

(***************************************************************************)
(* Properties                                                              *)
(***************************************************************************)
\* goroutine g takes the step
Acts(g) == CopiesIn(g, hd') < CopiesIn(g, hd)
\* the step leaves a goroutine as g2
Arrives(g2) == CopiesIn(g2, hd') > CopiesIn(g2, hd)
\* the step ends a handler with the result res
Ends(res) == \E d \in BagToSet(hd') : Arrives(d) /\ d.pc = "done" /\ d.res = res

\* the hash of challenge and nonce has at least the configured number of leading zero bits
NonceMeetsDifficulty(pkt) ==
    \E zeros \in cfg.ChallengeDifficulty..(HashSize * 8) :
        countLeadingZeros(HashChallengeNonce(pkt.challenge, pkt.nonce)) = zeros
\* the challenge is the hash of a key of the rotation and the sender's identity
ChallengeOfRotation(pkt) ==
    \E k \in 1..Len(keyRotation) : pkt.challenge = HashKeyId(keyRotation[k], pkt.sender)

\* C1: between two resets of the peer state at most one Push of a peer
\* enqueues its node into the push view, whatever the interleaving
OnePushPerRound == \A p \in Peers : enqueued[p] <= 1

\* C2: a Push whose node identity is not its sender's is never enqueued:
\* whenever a Push of peer p hands a node to the push view, it is p's node
PushEnqueuesOwnNode ==
    [][\A p \in Peers : enqueued'[p] > enqueued[p] => pushDrain'.id = p]_vars

\* a Push with the node of another peer has been rejected and another Push enqueued
ThirdPartyPushRejected ==
    /\ \E g \in Goroutines : g.res = "thirdparty"
    /\ \E p \in Peers : enqueued[p] > 0

\* C3: a Push gets past the verification only if its nonce meets the
\* configured difficulty and its challenge is SHA-256(k || sender) for a key k
\* in the rotation at that moment; only a Push that got past it is enqueued
PushVerifiedAgainstRotation ==
    [][/\ \A g2 \in BagToSet(hd') :
            g2.pc = "push_allow" /\ Arrives(g2) =>
                NonceMeetsDifficulty(g2.pkt) /\ ChallengeOfRotation(g2.pkt)
       /\ \A g2 \in BagToSet(hd') :
            g2.pc = "push_send" /\ Arrives(g2) =>
                \E g \in Goroutines : Acts(g) /\ g.pc = "push_allow" /\ g.pkt = g2.pkt
       /\ \A p \in Peers :
            enqueued'[p] > enqueued[p] =>
                \E g \in Goroutines : Acts(g) /\ g.pc = "push_send" /\ g.pkt.sender = p
      ]_vars

\* the first key has left the rotation, a Push has been refused for its
\* challenge and another one has been enqueued
ExpiredKeyRefused ==
    /\ Len(keyRotation) = R
    /\ keyRotation[1] > 1
    /\ \E g \in Goroutines : g.res = "badchallenge"
    /\ \E p \in Peers : enqueued[p] > 0

\* C4: a Message of peer p reaches the store only through a handler that found
\* AllowMessage(p) set, and AllowMessage(p) is added only by the handler of a
\* PullResponse of p that found AllowPull(p) set or of a valid Push of p
MessageOnlyAfterAllow ==
    [][/\ \A g2 \in BagToSet(hd') :
            g2.pc = "msg_store" /\ Arrives(g2) =>
                AllowMessage \in peerState[g2.pkt.sender]
       /\ Len(messagesToSpread') > Len(messagesToSpread) =>
            \E g \in Goroutines :
                /\ Acts(g) /\ g.pc = "msg_store"
                /\ messagesToSpread'[Len(messagesToSpread')].SourceIdentity = g.pkt.sender
       /\ \A p \in Peers :
            AllowMessage \in peerState'[p] \ peerState[p] =>
                \E g \in Goroutines :
                    Acts(g) /\ g.pkt.sender = p /\ g.pc \in {"pr_allow", "push_allow"}
       /\ \A g2 \in BagToSet(hd') :
            g2.pc = "pr_allow" /\ Arrives(g2) => AllowPull \in peerState[g2.pkt.sender]
       /\ \A g2 \in BagToSet(hd') :
            g2.pc = "push_allow" /\ Arrives(g2) =>
                /\ NonceMeetsDifficulty(g2.pkt) /\ ChallengeOfRotation(g2.pkt)
                /\ g2.pkt.node.id = g2.pkt.sender
      ]_vars

\* a Message of a peer holding AllowMessage is in the store, put there by a
\* handler that came after the handler of that peer's PullResponse or Push
MessageStoredAfterAllow ==
    /\ \E k \in 1..Len(messagesToSpread) :
          /\ messagesToSpread[k].SourceIdentity \in Peers
          /\ AllowMessage \in peerState[messagesToSpread[k].SourceIdentity]
    /\ \E g \in Goroutines : g.res = "stored"
    /\ \E g \in Goroutines : g.res = "accepted"

\* C5: the nodes of a PullResponse of peer p are enqueued only by a handler
\* that found AllowPull(p) set, which is set exactly for the peers sent a
\* PullRequest since the last reset; a PullResponse of another peer changes nothing
PullResponseOnlyAfterRequest ==
    [][/\ \A p \in Peers : AllowPull \in peerState[p] <=> p \in pullSent
       /\ \A g2 \in BagToSet(hd') :
            g2.pc = "pr_allow" /\ Arrives(g2) =>
                AllowPull \in peerState[g2.pkt.sender] /\ g2.pkt.sender \in pullSent
       /\ \A g2 \in BagToSet(hd') :
            g2.pc = "pr_send" /\ Arrives(g2) =>
                \E g \in Goroutines : Acts(g) /\ g.pc \in {"pr_allow", "pr_send"}
       /\ (pullDrain' # NoNode /\ pullDrain' # pullDrain) =>
            \E g \in Goroutines : Acts(g) /\ g.pc = "pr_send" /\ pullDrain' = g.pkt.nodes[g.i]
       /\ \A g \in Goroutines :
            Acts(g) /\ g.pc = "pr_check" /\ g.pkt.sender \notin pullSent =>
                /\ Ends("dropped")
                /\ UNCHANGED <<cfg, restVars, samplers, engineVars, viewVars, peerState,
                               pullResponseNodes, challengerVars, messageVars, historyVars>>
      ]_vars

\* the node of a PullResponse of the peer asked is in the pull view and the
\* PullResponse of a peer not asked has been dropped
PullResponseTakenAndDropped ==
    /\ Len(pullView) > 0
    /\ \E g \in Goroutines : g.res = "dropped"

\* C6: the aggregation of a round replaces the main view when the push view
\* holds between 1 and AlphaL1 nodes and the pull view holds a node or no
\* PullRequest was sent, and leaves the main view as it is otherwise
MainViewReplacedIff ==
    [][pc = "aggregate" /\ (pc' # pc \/ status' # status) =>
          IF RebuildCondition(cfg, pushView, pullView, pullFromNodes)
            THEN status' = "running" /\ pc' = "update" /\ Len(mainView') > 0
            ELSE status' = "running" /\ pc' = "update" /\ mainView' = mainView
      ]_vars

\* C7: whatever the peers send, every round of the engine eventually
\* completes and the next round begins: its ResetPeerStates returns and the
\* loop reaches the requests of that round
RoundCompletes ==
    \A r \in 1..MaxRound : (round = r) ~> (round = r + 1 /\ pc = "requests")

\* C8: no error ends the round loop: Gossip.Start does not return
StartNeverReturns == status # "returned"

\* C9: a PushChallenge of a peer that was sent a PushRequest in this round,
\* solvable in time, is solved and answered with a Push
ChallengeAnswered ==
    [][\A g \in Goroutines :
          (/\ Acts(g) /\ g.pc = "pushchallenge"
           /\ g.pkt.sender \in pushReqSent
           /\ SolveChallenge(g.pkt.challenge, g.pkt.difficulty) # {}) => Ends("pushed")
      ]_vars

\* C10: a Push that is rejected for its challenge or for its node leaves the
\* peer state as it is
RejectedPushKeepsPeerState ==
    [][\A g \in Goroutines :
          (/\ Acts(g) /\ g.pc = "push_deny"
           /\ (Ends("badchallenge") \/ Ends("thirdparty"))) => peerState' = peerState
      ]_vars

\* C11: after any sequence of announcements and received messages the store
\* holds at most one entry per pair of data type and data hash
StoreHoldsEachMessageOnce ==
    \A j, k \in 1..Len(messagesToSpread) :
        j # k => ~(/\ messagesToSpread[j].DataType = messagesToSpread[k].DataType
                   /\ messagesToSpread[j].DataHash = messagesToSpread[k].DataHash)

(***************************************************************************)
(* The flood limit of handleMessage                                        *)
(***************************************************************************)
\* the peer that fills the store: the bootstrap node, which is sent the
\* PullRequest of the round and so can gain AllowMessage
FloodingPeer == BootstrapNodes[1].id

\* the store after peer p had n Messages of infinite hops with n different
\* payloads stored in the round before (payloads no later packet carries)
FloodedStore(p, n) ==
    [k \in 1..n |-> ReceivedMessage(PacketMessage(p, 0, 1, 0 - k))]

\* the node at the start of a round with one or no entry less than the flood
\* limit stored for the flooding peer
InitFlood ==
    \E n \in {FloodLimit - 1, FloodLimit} :
        Running(WholeSharesConfig, FloodedStore(FloodingPeer, n))

\* the pull exchange and the messages of the peers
NextFlood ==
    \/ Engine
    \/ \E pkt \in PullResponseHeaders \cup MessageHeaders : Receive(pkt)
    \/ \E g \in Goroutines : PullResponseStep(g)
    \/ \E g \in Goroutines : MessageStep(g)
    \/ PullDrainAppend

SpecFlood == InitFlood /\ [][NextFlood]_vars

\* C12: for every remote sender the store holds at most FloodLimit (50)
\* entries of that source at every moment
SenderHoldsAtMostFloodLimit ==
    \A p \in Peers :
        Cardinality({k \in 1..Len(messagesToSpread) :
                        messagesToSpread[k].SourceIdentity = p}) <= FloodLimit

(***************************************************************************)
(* A chain of nodes that run the same server.  Node h exchanges messages   *)
(* with its neighbours h - 1 and h + 1 only, so it is h hops from node 0.   *)
(***************************************************************************)
\* a sendGossipMessages that skips no entry
ForwardableAll(msgs) == msgs

\* sendGossipMessages: the entries a node forwards, if msg.LocalTTL <= 0 { continue }
Forwardable(msgs) == SelectSeq(msgs, LAMBDA msg : msg.LocalTTL > 0)

\* the critical section of handleMessage on a store: the store it leaves
StoreAfterMessage(msgs, pkt) ==
    IF MessageKnown(msgs, pkt) \/ MessagesSameSource(msgs, pkt) > FloodLimit
      THEN msgs
      ELSE Append(msgs, ReceivedMessage(pkt))

\* the time-to-live values node 0 announces with; the payload of an
\* announcement names its time-to-live
NetTTLs == 1..(MaxHops - 1)

\* spreadMessage at node 0
NetSpread(t) ==
    /\ netStore[0] = <<>>
    /\ netStore' = [netStore EXCEPT ![0] = Append(@, AnnouncedMessage(t, 1, t))]
    /\ UNCHANGED <<cfg, unitVars, samplers, engineVars, viewVars, peerState, pullResponseNodes,
                   challengerVars, messageVars, hd, historyVars, pingVars,
                   storeHistoryVars, netRound>>

\* sendGossipMessages at node i for its neighbour j, and handleMessage at
\* node j for one of the packets
NetForward(i, j) ==
    /\ \E msg \in {Forwardable(netStore[i])[k] : k \in 1..Len(Forwardable(netStore[i]))} :
          netStore' = [netStore EXCEPT ![j] =
              StoreAfterMessage(@, PacketMessage(i, msg.TTL, msg.DataType, msg.Data))]
    /\ UNCHANGED <<cfg, unitVars, samplers, engineVars, viewVars, peerState, pullResponseNodes,
                   challengerVars, messageVars, hd, historyVars, pingVars,
                   storeHistoryVars, netRound>>

\* ResetPeerStates at node h: the decay of its store
NetReset(h) ==
    /\ netRound[h] <= MaxRound
    /\ netRound' = [netRound EXCEPT ![h] = @ + 1]
    /\ netStore' = [netStore EXCEPT ![h] = DecayMessages(@)]
    /\ UNCHANGED <<cfg, unitVars, samplers, engineVars, viewVars, peerState, pullResponseNodes,
                   challengerVars, messageVars, hd, historyVars, pingVars,
                   storeHistoryVars>>

NextHops ==
    \/ \E t \in NetTTLs : NetSpread(t)
    \/ \E i, j \in NetNodes : (i - j = 1 \/ j - i = 1) /\ NetForward(i, j)
    \/ \E h \in NetNodes : NetReset(h)

SpecHops == InitWholeShares /\ [][NextHops]_vars

\* C13: a message announced with time-to-live t > 0 is never in the store of
\* a node more than t forwarding hops away from its origin
MessageStaysWithinTTL ==
    \A h \in NetNodes : \A k \in 1..Len(netStore[h]) : h <= netStore[h][k].Data

\* the message announced with time-to-live 2 is stored two hops away, with
\* no hop left, and the node one hop further has begun a round
MessageAtLastHop ==
    /\ \E k \in 1..Len(netStore[2]) : netStore[2][k].Data = 2 /\ netStore[2][k].TTL = 0
    /\ netRound[3] > 0

(***************************************************************************)
(* The decay of the message store over many round boundaries               *)
(***************************************************************************)
\* the time-to-live values the API client announces with
DecayTTLs == {1, 3}

\* ResetPeerStates of a node whose handlers are idle, as one step: the reset
\* of the peer state and the decay of the store
ResetPeerStates ==
    /\ Alive
    /\ mutexMessages = "free"
    /\ boundaries < MaxBoundaries
    /\ peerState' = [p \in Peers |-> {}]
    /\ pullSent' = {}
    /\ pushReqSent' = {}
    /\ enqueued' = [p \in Peers |-> 0]
    /\ admitted' = NoneAdmitted
    /\ messagesToSpread' = DecayMessages(messagesToSpread)
    /\ boundaries' = boundaries + 1
    /\ UNCHANGED <<cfg, unitVars, samplers, engineVars, viewVars, pullResponseNodes, challengerVars,
                   mutexMessages, hd, pingVars, netVars, spreadLog, storedPkt, sent,
                   notified>>

NextDecay ==
    \/ \E t \in DecayTTLs : \E ty \in DataTypes : \E d \in Payloads : Spread(t, ty, d)
    \/ ResetPeerStates

SpecDecay == InitWholeShares /\ [][NextDecay]_vars

\* the announcements whose entry is still stored: those that saw fewer than
\* ttl + 24 round boundaries
LiveAnnouncements ==
    SelectSeq(spreadLog, LAMBDA e : boundaries - e.at < e.ttl + EvictBelow)

DecayEvictsBelowGrace ==
    [][boundaries' # boundaries =>
         messagesToSpread' =
             SelectSeq([k \in 1..Len(messagesToSpread) |->
                           [messagesToSpread[k] EXCEPT !.LocalTTL = @ - 1]],
                       LAMBDA msg : ~(msg.LocalTTL < 0 - EvictBelow))]_vars

\* C16: an announcement with ttl = 0 (infinite hops) is stored with
\* local_ttl = 255, an announcement with ttl = t > 0 with local_ttl = t
AnnouncedLocalTTL ==
    [][Len(spreadLog') > Len(spreadLog) =>
         LET t == spreadLog'[Len(spreadLog')].ttl
             msg == messagesToSpread'[Len(messagesToSpread')]
         IN  /\ Len(messagesToSpread') = Len(messagesToSpread) + 1
             /\ msg.TTL = t
             /\ msg.LocalTTL = IF t = 0 THEN InfiniteLocalTTL ELSE t]_vars

\* C17: a newly admitted received message with wire ttl = t is stored with
\* ttl = t - 1 and local_ttl = t - 1 when t > 0, and with ttl = 0 and
\* local_ttl = 255 when t = 0
ReceivedTTL ==
    [][(\E g \in Goroutines : Acts(g) /\ g.pc = "msg_store") /\ Ends("stored") =>
         LET t == storedPkt'.ttl
             msg == messagesToSpread'[Len(messagesToSpread')]
         IN  /\ Len(messagesToSpread') = Len(messagesToSpread) + 1
             /\ msg.DataType = storedPkt'.dataType /\ msg.Data = storedPkt'.data
             /\ t > 0 => msg.TTL = t - 1 /\ msg.LocalTTL = t - 1
             /\ t = 0 => msg.TTL = 0 /\ msg.LocalTTL = InfiniteLocalTTL]_vars

\* a Message of infinite hops (wire ttl = 0) has been stored
InfiniteHopsStored ==
    /\ storedPkt.type = "Message" /\ storedPkt.ttl = 0
    /\ \E g \in Goroutines : g.res = "stored"
    /\ \E k \in 1..Len(messagesToSpread) :
          messagesToSpread[k].SourceIdentity = storedPkt.sender

(***************************************************************************)
(* handlePullRequest and sendGossipMessages                                *)
(***************************************************************************)
\* the Message packets sendGossipMessages builds from a store:
\* NewPacketMessage(s.ownNode.Identity, msg.TTL, msg.DataType, msg.Data)
GossipMessages(msgs) ==
    LET out == Forwardable(msgs)
    IN  {PacketMessage(Self, out[k].TTL, out[k].DataType, out[k].Data) : k \in 1..Len(out)}

\* the datagrams sendBytes hands to the network for a receiver
SentTo(receiver, packets) == {[to |-> receiver, pkt |-> pkt] : pkt \in packets}

\* handlePullRequest: the PullResponse with s.pullResponseNodes goes out under
\* the read lock of mutexPullResponseNodes (NewPacketPullResponse fails only
\* above MaxPacketSize, which a view of this size never reaches)
HandlePullRequest(g) ==
    /\ Alive
    /\ g.pc = "pullreq"
    /\ sent' = sent \cup SentTo(g.pkt.sender, {PacketPullResponse(Self, pullResponseNodes)})
    /\ hd' = Goto(g, "pullreq_msgs")
    /\ UNCHANGED <<cfg, unitVars, samplers, engineVars, viewVars, peerState, pullResponseNodes,
                   challengerVars, messageVars, historyVars, pingVars, netVars, boundaries,
                   spreadLog, storedPkt, notified>>

\* s.sendGossipMessages(fromAddr.String(), packet.SenderIdentity): the loop
\* over the store runs under s.mutexMessages.RLock()
SendGossipMessages(g) ==
    /\ Alive
    /\ g.pc = "pullreq_msgs"
    /\ mutexMessages = "free"
    /\ sent' = sent \cup SentTo(g.pkt.sender, GossipMessages(messagesToSpread))
    /\ hd' = Done(g, "answered")
    /\ UNCHANGED <<cfg, unitVars, samplers, engineVars, viewVars, peerState, pullResponseNodes,
                   challengerVars, messageVars, historyVars, pingVars, netVars, boundaries,
                   spreadLog, storedPkt, notified>>

PullRequestStep(g) == HandlePullRequest(g) \/ SendGossipMessages(g)

\* peers pull from this node while it announces and receives messages
NextForward ==
    \/ Engine
    \/ \E pkt \in PullRequestHeaders \cup MessageHeaders : Receive(pkt)
    \/ \E g \in Goroutines : PullRequestStep(g)
    \/ \E g \in Goroutines : MessageStep(g)
    \/ \E t \in TTLs : \E ty \in DataTypes : \E d \in Payloads : Spread(t, ty, d)

SpecForward == InitWholeShares /\ [][NextForward]_vars

\* C18: a Message packet is sent only for a store entry whose local_ttl is
\* above 0 at the time of sending
OnlyLiveEntriesSent ==
    [][\A s \in sent' \ sent : s.pkt.type = "Message" =>
          \E k \in 1..Len(messagesToSpread) :
              /\ messagesToSpread[k].LocalTTL > 0
              /\ s.pkt = PacketMessage(Self, messagesToSpread[k].TTL,
                                       messagesToSpread[k].DataType,
                                       messagesToSpread[k].Data)]_vars

\* a pull request was answered with a live entry while the store also held
\* an entry that is no longer forwarded
LiveSentExpiredKept ==
    /\ \E g \in Goroutines : g.res = "answered"
    /\ \E s \in sent : s.pkt.type = "Message" /\ s.pkt.ttl = 2
    /\ \E k \in 1..Len(messagesToSpread) : messagesToSpread[k].LocalTTL <= 0
    /\ \A s \in sent : s.pkt.type = "Message" => s.pkt.ttl # 0

(***************************************************************************)
(* The validation callback of handleMessage                                *)
(***************************************************************************)
\* a callback that empties the store
WithoutAny(msgs, dataHash) == SelectSeq(msgs, LAMBDA msg : FALSE)

\* the loop of the callback: if !bytes.Equal(msg.DataHash, dataHash) { keep }
WithoutInvalid(msgs, dataHash) == SelectSeq(msgs, LAMBDA msg : msg.DataHash # dataHash)

\* the API client answers a notification and handleRequests calls the callback
\* closed over dataHash: func(valid bool) { if valid { return }; Lock; ...; Unlock }
ValidationCallback(dataHash, valid) ==
    /\ Alive
    /\ dataHash \in notified
    /\ IF valid
         THEN UNCHANGED messagesToSpread
         ELSE /\ mutexMessages = "free"
              /\ messagesToSpread' = WithoutInvalid(messagesToSpread, dataHash)
    /\ UNCHANGED <<cfg, unitVars, samplers, engineVars, viewVars, peerState, pullResponseNodes,
                   challengerVars, mutexMessages, hd, historyVars, restVars>>

ValidatedPayloads == {1, 2}

\* the messages, with an API client that validates what it is notified of
NextValidate ==
    \/ Engine
    \/ \E pkt \in PullResponseHeaders \cup MessageHeaders : Receive(pkt)
    \/ \E g \in Goroutines : PullResponseStep(g)
    \/ \E g \in Goroutines : MessageStep(g)
    \/ PullDrainAppend
    \/ \E t \in TTLs : \E ty \in DataTypes : \E d \in ValidatedPayloads : Spread(t, ty, d)
    \/ \E dataHash \in notified : \E valid \in BOOLEAN : ValidationCallback(dataHash, valid)

SpecValidate == InitWholeShares /\ [][NextValidate]_vars

\* C19: when the validation callback of a notified message runs with
\* valid = false, every store entry with the data hash of that message is
\* removed and every other entry is kept, in its place
InvalidMessagePurged ==
    [][\A dataHash \in notified : ValidationCallback(dataHash, FALSE) =>
          /\ \A k \in 1..Len(messagesToSpread') :
                 messagesToSpread'[k].DataHash # dataHash
          /\ \A msg \in {messagesToSpread[k] : k \in 1..Len(messagesToSpread)} :
                 msg.DataHash # dataHash =>
                     Len(SelectSeq(messagesToSpread', LAMBDA m : m = msg))
                       = Len(SelectSeq(messagesToSpread, LAMBDA m : m = msg))
          /\ Len(messagesToSpread') <= Len(messagesToSpread)]_vars

\* the entries of a notified message are gone from the store and an entry
\* with another hash is still there
InvalidGoneOthersKept ==
    \E dataHash \in notified :
        /\ \A k \in 1..Len(messagesToSpread) : messagesToSpread[k].DataHash # dataHash
        /\ \E k \in 1..Len(messagesToSpread) : messagesToSpread[k].DataHash # dataHash

(***************************************************************************)
(* Ping, handlePong and the ping phase of the round                        *)
(***************************************************************************)
\* Identity.String(): the hex encoding of the identity, 64 characters
IdentityString(id) == <<"hex", id>>

\* a handler that looks the channel up under the key Ping registered it with
PongKeyOfPing(id) == <<"hex", id>>

\* string(packet.SenderIdentity): the 32 bytes of the identity as they are
RawIdentity(id) == <<"raw", id>>

PacketPing(sender) == Packet("Ping", sender, BogusChallenge, 0, 0, NoNode, <<>>, 0, 0, 0)

\* the goroutine t of the ping phase takes a step that leaves it as t2
PingGoto(t, t2) == (pings \ {t}) \cup {t2}

\* s.pongChannels[key] = make(chan struct{}, 1)
WithChannel(channels, key) ==
    [k \in DOMAIN channels \cup {key} |-> IF k = key THEN 0 ELSE channels[k]]

\* delete(s.pongChannels, key)
WithoutChannel(channels, key) == [k \in DOMAIN channels \ {key} |-> channels[k]]

\* a handler of a Pong holds s.mutexPongChannels.RLock(): it waits at ch <- struct{}{}
PongReaders == {g \in Goroutines : g.pc = "pong_send"}

\* Ping up to the select: the channel is registered under
\* node.Identity.String(), between Lock() and Unlock(), and the Ping packet goes out
PingSend(t) ==
    /\ Alive
    /\ t.pc = "start"
    /\ PongReaders = {}
    /\ pongChannels' = WithChannel(pongChannels, IdentityString(t.node.id))
    /\ sent' = sent \cup SentTo(t.node.id, {PacketPing(Self)})
    /\ pings' = PingGoto(t, [t EXCEPT !.pc = "select"])
    /\ UNCHANGED <<cfg, unitVars, samplers, engineVars, viewVars, peerState, pullResponseNodes,
                   challengerVars, messageVars, hd, historyVars, netVars, boundaries,
                   spreadLog, storedPkt, notified>>

\* select { case <-pongChannel: return true; case <-time.After(timeout):
\* return false }
PingSelect(t) ==
    LET key == IdentityString(t.node.id)
    IN  /\ Alive
        /\ t.pc = "select"
        /\ \E answered \in {b \in BOOLEAN : b => pongChannels[key] > 0} :
              /\ pings' = PingGoto(t, [t EXCEPT !.pc = "deferred",
                                                 !.res = IF answered THEN "pong"
                                                                     ELSE "timeout"])
              /\ pongChannels' = IF answered THEN [pongChannels EXCEPT ![key] = 0]
                                             ELSE pongChannels
        /\ UNCHANGED <<cfg, unitVars, samplers, engineVars, viewVars, peerState, pullResponseNodes,
                       challengerVars, messageVars, hd, historyVars, netVars,
                       storeHistoryVars>>

\* the deferred function of Ping: Lock(), delete(s.pongChannels, key),
\* Unlock(); Ping returns, and in the goroutine of the phase
\* if !Ping(...) { err = movedSampler.Init() }
PingReturn(t) ==
    /\ Alive
    /\ t.pc = "deferred"
    /\ PongReaders = {}
    /\ \E bias \in Biases :
          pings' = PingGoto(t, IF t.res = "pong"
                                 THEN [t EXCEPT !.pc = "done"]
                                 ELSE [t EXCEPT !.moved = SamplerInit(bias), !.pc = "done"])
    /\ pongChannels' = WithoutChannel(pongChannels, IdentityString(t.node.id))
    /\ UNCHANGED <<cfg, unitVars, samplers, engineVars, viewVars, peerState, pullResponseNodes,
                   challengerVars, messageVars, hd, historyVars, netVars,
                   storeHistoryVars>>

PingStep(t) == PingSend(t) \/ PingSelect(t) \/ PingReturn(t)

\* the calls of Ping that wait in their select for a Pong of the identity id
Waiting(id) == {t \in pings : t.pc = "select" /\ t.node.id = id}

\* history: a Pong of the identity id has been handled while these calls waited
Ponged(id) ==
    {[t EXCEPT !.ponged = TRUE] : t \in Waiting(id)} \cup (pings \ Waiting(id))

\* handlePong: s.mutexPongChannels.RLock(); if ch, ok :=
\* s.pongChannels[string(packet.SenderIdentity)]; ok { ch <- struct{}{} };
\* s.mutexPongChannels.RUnlock(). The send waits, under the read lock, while
\* the buffer of the channel is full
HandlePong(g) ==
    LET key == RawIdentity(g.pkt.sender)
    IN  /\ Alive
        /\ g.pc \in {"pong", "pong_send"}
        /\ IF g.pc = "pong_send"
             THEN /\ pongChannels[key] = 0
                  /\ pongChannels' = [pongChannels EXCEPT ![key] = 1]
                  /\ hd' = Done(g, "pong")
                  /\ UNCHANGED pings
             ELSE /\ hd' = IF key \in DOMAIN pongChannels
                             THEN Goto(g, "pong_send")
                             ELSE Done(g, "nochannel")
                  /\ pings' = Ponged(g.pkt.sender)
                  /\ UNCHANGED pongChannels
        /\ UNCHANGED <<cfg, unitVars, samplers, engineVars, viewVars, peerState, pullResponseNodes,
                       challengerVars, messageVars, historyVars, netVars,
                       storeHistoryVars>>

\* the rounds with a ping phase in each; the sampled peers may answer with Pong
NextPing ==
    \/ Engine
    \/ \E pkt \in PongHeaders : Receive(pkt)
    \/ \E g \in Goroutines : HandlePong(g)
    \/ \E t \in pings : PingStep(t)

SpecPing == Running(PingConfig, <<>>) /\ [][NextPing]_vars

\* the nodes whose ping ended in the timeout
Unanswered == {t.node : t \in {t0 \in pings : t0.res = "timeout"}}

\* C20: when the ping phase of a round has completed, every sampler of the
\* group whose node did not answer within the timeout is re-initialised: no
\* sampler holds such a node
UnansweredSamplersReinitialised ==
    (pc = "update" /\ \A t \in pings : t.pc = "done") =>
        \A i \in 1..Len(samplers) :
            Sample(samplers[i]) \notin Unanswered

(***************************************************************************)
(* Two nodes bootstrapped with each other: this node is X, PeerY is its    *)
(* bootstrap node and runs the same program with X as its bootstrap node.  *)
(* No Push is ever sent between them (handlePushChallenge drops every      *)
(* challenge), so the main view of Y stays <<X>> and Y answers each        *)
(* PullRequest with the nodes UpdatePullResponseNodes stored: none before  *)
(* its first round, X afterwards.                                          *)
(***************************************************************************)
TwoPeerRounds == 3

PeerY == BootstrapNodes[1]

\* SamplerGroup.SampleAll: the samples of the samplers that hold a node
SampleAll(sg) ==
    SelectSeq([i \in 1..Len(sg) |-> Sample(sg[i])], LAMBDA node : node # NilNode)

PeerYHeaders == {Header("PullResponse", PeerY.id)}

\* the PullResponse packets of Y: NewPacketPullResponse(own, s.pullResponseNodes)
PeerYPullResponses == {PacketPullResponse(PeerY.id, nodes) : nodes \in {<<>>, <<Node(Self)>>}}

\* Y answers the PullRequest of the round: one PullResponse for the request
PeerAnswersPull(pkt) ==
    /\ Alive
    /\ hasPeerCondition(peerState, pkt.sender, AllowPull)
    /\ ~hasPeerCondition(peerState, pkt.sender, AllowMessage)
    /\ \A g \in Goroutines : g.pc = "done"
    /\ hd' = hd (+) SetToBag({Handler(pkt)})
    /\ UNCHANGED <<cfg, restVars, samplers, engineVars, viewVars, peerState, pullResponseNodes,
                   challengerVars, messageVars, historyVars>>

NextTwoPeers ==
    \/ EngineUpTo(TwoPeerRounds)
    \/ \E pkt \in PeerYHeaders : PeerAnswersPull(pkt)
    \/ \E g \in Goroutines : HandlePullResponseCheck(g)
    \/ \E g \in Goroutines : HandlePullResponseAllowOf(g, PeerYPullResponses)
    \/ \E g \in Goroutines : HandlePullResponseSend(g)
    \/ PullDrainAppend

SpecTwoPeers == InitWholeShares /\ [][NextTwoPeers]_vars

\* C21: two honest nodes bootstrapped with each other and with no other
\* peers: after 3 rounds SampleAll() of the node contains the other node
OtherPeerSampledAfterThreeRounds ==
    round > TwoPeerRounds =>
        \E k \in 1..Len(SampleAll(samplers)) : SampleAll(samplers)[k] = PeerY

Stranger == 3

\* the identities of Crypto.idToPub
Keyring == Ids

\* a VerifySignature that takes the signature of any key
VerifySignatureOfAnyKey(signer, id) == id \in Keyring

\* Crypto.VerifySignature of a signature made with the key of signer, under
\* the public key of id
VerifySignature(signer, id) == id \in Keyring /\ signer = id

\* a goroutine of handleIncomingBytes before the signature is verified; i
\* holds the identity whose key signed the datagram
Incoming(type, sender, signer) ==
    [pc |-> "incoming", pkt |-> Header(type, sender), res |-> "none", i |-> signer]

Datagrams ==
    {Incoming(type, sender, signer) :
        type \in {"PullResponse", "Message"},
        sender \in Peers \cup {Stranger},
        signer \in Peers \cup {Stranger}}

\* listenForPackets: go s.handleIncomingBytes(packetBytes, fromAddr)
Arrive(g) ==
    /\ Alive
    /\ BagCardinality(hd) < MaxPackets
    /\ hd' = hd (+) SetToBag({g})
    /\ UNCHANGED <<cfg, restVars, samplers, engineVars, viewVars, peerState, pullResponseNodes,
                   challengerVars, messageVars, historyVars>>

\* err = s.crypto.VerifySignature(..., header.SenderIdentity); if err != nil
\* { return }; switch header.Type { ... }
HandleIncomingBytes(g) ==
    /\ Alive
    /\ g.pc = "incoming"
    /\ hd' = IF VerifySignature(g.i, g.pkt.sender)
               THEN Step(g, Handler(g.pkt))
               ELSE Done(g, "rejected")
    /\ UNCHANGED <<cfg, restVars, samplers, engineVars, viewVars, peerState, pullResponseNodes,
                   challengerVars, messageVars, historyVars>>

NextIncoming ==
    \/ Engine
    \/ \E g \in Datagrams : Arrive(g)
    \/ \E g \in Goroutines : HandleIncomingBytes(g)
    \/ \E g \in Goroutines : PullResponseStep(g)
    \/ \E g \in Goroutines : MessageStep(g)
    \/ PullDrainAppend

SpecIncoming == InitWholeShares /\ [][NextIncoming]_vars

\* the signature of the datagram of g verifies under the key of the sender
\* its header names, and the keyring holds that sender
Authentic(g) == g.pkt.sender \in Keyring /\ g.i = g.pkt.sender

\* C23: a datagram whose signature does not verify under the public key of
\* the sender named in its header, or whose sender is not in the keyring,
\* never reaches a packet handler and changes no local state
ForgedDatagramDropped ==
    [][\A g \in Goroutines :
          (Acts(g) /\ g.pc = "incoming" /\ ~Authentic(g)) =>
              /\ Ends("rejected")
              /\ UNCHANGED <<cfg, restVars, samplers, engineVars, viewVars, peerState,
                             pullResponseNodes, challengerVars, messageVars,
                             historyVars>>]_vars

\* a datagram signed with another peer's key was dropped and an authentic
\* one went through its handler
ForgedDroppedAuthenticHandled ==
    /\ \E g \in Goroutines : g.res = "rejected"
    /\ \E g \in Goroutines : g.res = "accepted"

\* the difficulties of the calls examined: none, those around the zero bits a
\* hash has, and the highest one the hash allows
CheckedDifficulties == {0, 3, 4, 10, 11, HashSize * 8 - 1}

MaxNonce == 3

\* an iteration that takes a nonce one zero bit short of the difficulty
SolveIterationShort(challenge, difficulty, nonce, expired) ==
    IF expired THEN "cancelled"
    ELSE IF countLeadingZeros(HashChallengeNonce(challenge, nonce)) >= difficulty - 1
      THEN "solved"
    ELSE "next"

\* select { case <-ctx.Done(): return nil, ctx.Err(); default: if
\* countLeadingZeros(checkHash.Sum(nil)) >= difficulty { return nonceBytes, nil };
\* nonce = nonce + 1 }
SolveIteration(challenge, difficulty, nonce, expired) ==
    IF expired THEN "cancelled"
    ELSE IF countLeadingZeros(HashChallengeNonce(challenge, nonce)) >= difficulty
      THEN "solved"
    ELSE "next"

\* the calls: SolveChallenge(packet.Challenge, int(packet.Difficulty), ctx)
SolveCalls ==
    {[pc |-> "solve", pkt |-> PacketPushChallenge(p, d, HashKeyId(k, Self)), res |-> "none",
      i |-> 0] : p \in Peers, d \in {0} \cup PeerDifficulties, k \in {0, 1}}

CallSolve(g) ==
    /\ Alive
    /\ BagCardinality(hd) < MaxPackets
    /\ hd' = hd (+) SetToBag({g})
    /\ UNCHANGED <<cfg, restVars, samplers, engineVars, viewVars, peerState, pullResponseNodes,
                   challengerVars, messageVars, historyVars>>

\* the deadline of context.WithTimeout fires: ctx.Done() is closed
DeadlineFires(g) ==
    /\ Alive
    /\ g.pc = "solve"
    /\ g.res = "none"
    /\ hd' = Step(g, [g EXCEPT !.res = "expired"])
    /\ UNCHANGED <<cfg, restVars, samplers, engineVars, viewVars, peerState, pullResponseNodes,
                   challengerVars, messageVars, historyVars>>

\* one iteration of the loop; the nonces are followed up to MaxNonce
SolveStep(g) ==
    LET outcome == SolveIteration(g.pkt.challenge, g.pkt.difficulty, g.i, g.res = "expired")
    IN  /\ Alive
        /\ g.pc = "solve"
        /\ outcome = "next" => g.i < MaxNonce
        /\ hd' = Step(g, IF outcome = "next" THEN [g EXCEPT !.i = @ + 1]
                         ELSE [g EXCEPT !.pc = "done", !.res = outcome])
        /\ UNCHANGED <<cfg, restVars, samplers, engineVars, viewVars, peerState,
                       pullResponseNodes, challengerVars, messageVars, historyVars>>

NextSolve ==
    \/ \E g \in SolveCalls : CallSolve(g)
    \/ \E g \in Goroutines : DeadlineFires(g)
    \/ \E g \in Goroutines : SolveStep(g)

\* the goroutine of the call runs and the timer of the context fires
FairSolve ==
    /\ WF_vars(\E g \in Goroutines : SolveStep(g))
    /\ WF_vars(\E g \in Goroutines : DeadlineFires(g))

SpecSolve == InitWholeShares /\ [][NextSolve]_vars /\ FairSolve

\* a call whose deadline has fired has not returned
ExpiredCallRuns == \E g \in Goroutines : g.pc = "solve" /\ g.res = "expired"

\* C25: SolveChallenge returns only nonces whose hash has at least
\* difficulty leading zero bits, returns the cancellation error only when no
\* nonce it tried met the difficulty, and no call goes on for ever once its
\* deadline has fired
SolveReturnsGoodNonceOrCancels ==
    /\ [](\A g \in Goroutines :
            /\ g.res = "solved" =>
                 countLeadingZeros(HashChallengeNonce(g.pkt.challenge, g.i))
                   >= g.pkt.difficulty
            /\ g.res = "cancelled" =>
                 \A n \in 0..(g.i - 1) :
                     countLeadingZeros(HashChallengeNonce(g.pkt.challenge, n))
                       < g.pkt.difficulty)
    /\ []<>(~ExpiredCallRuns)

\* a call with a difficulty no nonce meets was cancelled after it had tried
\* nonces, and a call with a difficulty a nonce meets returned that nonce
SolvedAndCancelled ==
    /\ \E g \in Goroutines : g.res = "cancelled" /\ g.i > 0
    /\ \E g \in Goroutines : g.res = "solved" /\ g.i > 0

(***************************************************************************)
(* The samplers alone: a stream of nodes fed to a sampler group            *)
(***************************************************************************)
\* the nodes one stream feeds at most
MaxStream == 3

\* biases rand.Read can give: each makes another identity the one of least hash
StreamBiases == 0..(Cardinality(Ids) - 1)

\* SamplerGroup.Update with one node of a stream
StreamNext(node) ==
    /\ Len(fed) < MaxStream
    /\ samplers' = SamplerGroupUpdate(samplers, <<node>>)
    /\ fed' = Append(fed, node.id)
    /\ UNCHANGED <<cfg, engineVars, viewVars, peerState, pullResponseNodes, challengerVars,
                   messageVars, hd, historyVars, pingVars, storeHistoryVars, netVars,
                   viewCallVars, published, apiVars>>

\* Sampler.Init on every sampler of the group, as NewSamplerGroup does
StreamInit(biases) ==
    /\ samplers' = [i \in 1..Len(samplers) |-> SamplerInit(biases[i])]
    /\ fed' = <<>>
    /\ UNCHANGED <<cfg, engineVars, viewVars, peerState, pullResponseNodes, challengerVars,
                   messageVars, hd, historyVars, pingVars, storeHistoryVars, netVars,
                   viewCallVars, published, apiVars>>

NextSampler ==
    \/ \E node \in Nodes : StreamNext(node)
    \/ \E biases \in [1..Len(samplers) -> StreamBiases] : StreamInit(biases)

SpecSampler == Running(PingConfig, <<>>) /\ [][NextSampler]_vars

\* C26: after any sequence of Next calls since the last Init, Sample() of a
\* sampler is nil when no node was fed, and otherwise a fed node whose hash
\* under the sampler's bias is the least among the hashes of all fed nodes
SampleIsMinWise ==
    \A i \in 1..Len(samplers) :
        IF fed = <<>>
          THEN Sample(samplers[i]) = NilNode
          ELSE /\ Sample(samplers[i]) # NilNode
               /\ \E j \in 1..Len(fed) : fed[j] = Sample(samplers[i]).id
               /\ \A j \in 1..Len(fed) :
                     HashBiasId(samplers[i].bias, Sample(samplers[i]).id)
                         <= HashBiasId(samplers[i].bias, fed[j])

\* a stream whose every node has a smaller hash than the one before it: the
\* sampler has replaced its node twice, the other sampler of the group kept its first
LaterSmallerHashReplaced ==
    /\ fed = <<1, 0, 2>>
    /\ samplers[1].bias = 1
    /\ Sample(samplers[1]) = Node(2)
    /\ samplers[2].bias = 2
    /\ Sample(samplers[2]) = Node(1)

\* C27: SampleAll() holds each node of a non-empty sampler exactly once: it
\* has no empty slot and no node twice, also when samplers share a node
SampleAllHoldsEachNodeOnce ==
    LET samples == SampleAll(samplers)
    IN  /\ \A k \in 1..Len(samples) : samples[k] # NilNode
        /\ \A i \in 1..Len(samplers) :
              Sample(samplers[i]) # NilNode
                  => \E k \in 1..Len(samples) : samples[k] = Sample(samplers[i])
        /\ \A k, l \in 1..Len(samples) : samples[k] = samples[l] => k = l

(***************************************************************************)
(* View: concurrent calls of Append, Clear and GetAll                      *)
(***************************************************************************)
\* the goroutines calling the view, and the nodes one view is given at most
MaxCallers == 2
MaxAppends == 2
ViewCallers == 1..MaxCallers

\* a mutex that excludes nobody
ViewMuNeverHeld(mu) == TRUE

\* v.mu.Lock() returns: no caller holds the mutex
ViewMuFree(mu) == mu = "free"

\* the calls a caller can make: op(n), waiting at v.mu.Lock()
ViewInvocations ==
    [id : ViewCallers, op : {"Append", "Clear", "GetAll"}, n : Nodes,
     pc : {"lock"}, local : {<<>>}]

\* a caller enters Append, Clear or GetAll
ViewCall(call) ==
    /\ \A c \in viewCalls : c.id # call.id
    /\ call.op # "Append" => call.n = Node(Self)
    /\ call.op = "Append" => Len(appended) < MaxAppends
    /\ viewCalls' = viewCalls \cup {call}
    /\ UNCHANGED <<cfg, samplers, engineVars, viewVars, peerState, pullResponseNodes,
                   challengerVars, messageVars, hd, historyVars, pingVars,
                   storeHistoryVars, netVars, fed, published, apiVars, viewNodes, viewMu, appended>>

\* the caller moves on with its record changed to c2
ViewGoto(c, c2) == viewCalls' = (viewCalls \ {c}) \cup {c2}

\* v.mu.Lock()
ViewLock(c) ==
    /\ c.pc = "lock"
    /\ ViewMuFree(viewMu)
    /\ viewMu' = "locked"
    /\ ViewGoto(c, [c EXCEPT !.pc = IF c.op = "Append" THEN "read" ELSE "body"])
    /\ UNCHANGED <<cfg, samplers, engineVars, viewVars, peerState, pullResponseNodes,
                   challengerVars, messageVars, hd, historyVars, pingVars,
                   storeHistoryVars, netVars, fed, published, apiVars, viewNodes, appended>>

\* Append: append(v.nodes, n) reads the slice
ViewAppendRead(c) ==
    /\ c.pc = "read"
    /\ ViewGoto(c, [c EXCEPT !.pc = "body", !.local = viewNodes])
    /\ UNCHANGED <<cfg, samplers, engineVars, viewVars, peerState, pullResponseNodes,
                   challengerVars, messageVars, hd, historyVars, pingVars,
                   storeHistoryVars, netVars, fed, published, apiVars, viewNodes, viewMu, appended>>

\* the statement between v.mu.Lock() and the deferred v.mu.Unlock()
ViewBody(c) ==
    /\ c.pc = "body"
    /\ IF c.op = "Append"
         THEN /\ viewNodes' = Append(c.local, c.n)
              /\ appended' = Append(appended, c.n)
              /\ ViewGoto(c, [c EXCEPT !.pc = "unlock", !.local = <<>>])
         ELSE IF c.op = "Clear"
         THEN /\ viewNodes' = <<>>
              /\ appended' = <<>>
              /\ ViewGoto(c, [c EXCEPT !.pc = "unlock"])
         ELSE /\ ViewGoto(c, [c EXCEPT !.pc = "unlock", !.local = viewNodes])
              /\ UNCHANGED <<viewNodes, appended>>
    /\ UNCHANGED <<cfg, samplers, engineVars, viewVars, peerState, pullResponseNodes,
                   challengerVars, messageVars, hd, historyVars, pingVars,
                   storeHistoryVars, netVars, fed, published, apiVars, viewMu>>

\* the deferred v.mu.Unlock(), and the call returns
ViewUnlock(c) ==
    /\ c.pc = "unlock"
    /\ viewMu' = "free"
    /\ viewCalls' = viewCalls \ {c}
    /\ UNCHANGED <<cfg, samplers, engineVars, viewVars, peerState, pullResponseNodes,
                   challengerVars, messageVars, hd, historyVars, pingVars,
                   storeHistoryVars, netVars, fed, published, apiVars, viewNodes, appended>>

NextView ==
    \/ \E call \in ViewInvocations : ViewCall(call)
    \/ \E c \in viewCalls : ViewLock(c) \/ ViewAppendRead(c) \/ ViewBody(c) \/ ViewUnlock(c)

SpecView == InitWholeShares /\ [][NextView]_vars

\* how often a node occurs in a list of nodes
Occurrences(nodes, node) == Cardinality({k \in 1..Len(nodes) : nodes[k] = node})

\* C28: whatever the interleaving of the callers of Append, Clear and GetAll,
\* the list GetAll returns holds every node as often as Append has added it
\* since the last Clear: duplicates are kept, and it is empty after a Clear
GetAllReturnsAppendedSinceClear ==
    \A c \in viewCalls :
        c.op = "GetAll" /\ c.pc = "unlock"
            => \A node \in Nodes : Occurrences(c.local, node) = Occurrences(appended, node)

\* GetAll returns a node appended twice while another caller waits for the mutex
GetAllReturnsDuplicate ==
    /\ \E c \in viewCalls :
          c.op = "GetAll" /\ c.pc = "unlock" /\ c.local = <<Node(1), Node(1)>>
    /\ \E c \in viewCalls : c.op = "Clear" /\ c.pc = "lock"

\* C29: in a round with a ping phase, every goroutine of the phase, the
\* re-initialisation of its sampler included, has ended when the round
\* takes the push view, the pull view and the samplers to build the main view
PingTasksEndBeforeAggregation ==
    [][(pc = "aggregate" /\ <<pc, status>>' # <<pc, status>>)
          => \A t \in pings : t.pc = "done"]_vars

\* the mutexes a handler holds when the step of g calls sendBytes:
\* handlePullRequest sends between mutexPullResponseNodes.RLock() and
\* RUnlock(), sendGossipMessages between mutexMessages.RLock() and RUnlock()
HeldWhileSending(g) ==
    IF g.pc = "pullreq" THEN {"mutexPullResponseNodes"}
    ELSE IF g.pc = "pullreq_msgs" THEN {"mutexMessages"}
    ELSE {}

\* C30: no handler holds the mutex of the peer state, of the pong channels,
\* of the message store or of the pull response nodes while it sends a datagram
NoMutexHeldWhileSending ==
    [][\A g \in Goroutines : Acts(g) /\ sent' # sent => HeldWhileSending(g) = {}]_vars

\* C31: a handler that returns has released every mutex it took, on the
\* paths of a known message and of a flooding source as on every other path:
\* when a handler ends, the mutex of the message store is free
HandlerReturnsWithMutexFree ==
    [][(\E d \in BagToSet(hd') : Arrives(d) /\ d.pc = "done") => mutexMessages' = "free"]_vars

\* the scheduler runs the handlers of the Pongs and the goroutines of the
\* ping phase, and the timer of time.After fires
FairPing ==
    /\ WF_vars(\E g \in Goroutines : HandlePong(g))
    /\ WF_vars(\E t \in pings : PingStep(t))

SpecPingFair == SpecPing /\ FairPing

\* C32: every call of Ping returns, whatever Pongs the pinged identity
\* sends and whenever it sends them, and no handler of a Pong waits forever:
\* again and again no call of Ping and no handler of a Pong is under way
PingReturnsAndPongHandlersEnd ==
    /\ []<>(\A t \in pings : t.pc = "done")
    /\ []<>(\A g \in Goroutines : g.pc \notin {"pong", "pong_send"})

\* a call of Ping has returned after a Pong of the pinged identity was handled
\* while it waited, and the handlers of two Pongs have ended
PingReturnedAfterTwoPongs ==
    /\ \E t \in pings : t.pc = "done" /\ t.ponged
    /\ \E g \in Goroutines : g.pc = "done" /\ g.res = "nochannel" /\ CopiesIn(g, hd) = 2

\* C33: a call of Ping that has returned gave true exactly if a Pong whose
\* sender is the pinged node was handled while the call waited in its select
PingTrueIffPongWhileWaiting ==
    \A t \in pings : t.pc = "done" => (t.res = "pong" <=> t.ponged)

\* C34: every PullResponse the node has sent carries a list that
\* UpdatePullResponseNodes published at the start of some round
PullResponseCarriesPublishedView ==
    \A d \in sent : d.pkt.type = "PullResponse" => d.pkt.nodes \in published

\* C35: every node of the push view and of the pull view that a round reads
\* at its aggregation step comes from a Push or a PullResponse admitted
\* under the peer state of that round, never from one admitted in the round before
ViewsHoldNodesAdmittedThisRound ==
    [][(pc = "aggregate" /\ <<pc, status>>' # <<pc, status>>)
          => \A node \in Nodes :
                /\ Occurrences(pushView, node) <= Occurrences(admitted.push, node)
                /\ Occurrences(pullView, node) <= Occurrences(admitted.pull, node)]_vars

\* C36: of the PullResponses a peer sends in a round, at most one hands
\* nodes to the pull view of the round; the others are dropped
OnePullResponsePerRequest ==
    \A p \in Peers : Occurrences(admitted.responders, p) <= 1

\* C37: the key list of the challenger holds between 1 and R keys at all
\* times; a tick of the rotation appends exactly one key that the list did
\* not hold, and drops the oldest key exactly when the list held R keys
KeyListWithinRAndRotates ==
    /\ [](Len(keyRotation) \in 1..R)
    /\ [][keyRotation' # keyRotation =>
            LET newKey == keyRotation'[Len(keyRotation')]
            IN  /\ \A k \in 1..Len(keyRotation) : keyRotation[k] # newKey
                /\ keyRotation' = IF Len(keyRotation) = R
                                    THEN Append(Tail(keyRotation), newKey)
                                    ELSE Append(keyRotation, newKey)]_vars

\* the list holds R keys and the first key of the challenger has been dropped
OldestKeyDropped ==
    /\ Len(keyRotation) = R
    /\ \A k \in 1..R : keyRotation[k] # 1

(***************************************************************************)
(* The wire: sendBytes of a peer and handleIncomingBytes of this node,     *)
(* over byte strings.  A byte string is a record of what made it and its   *)
(* length; two byte strings are equal when they were made the same way.    *)
(***************************************************************************)

PacketHeaderSize == 36
SignatureSize == 512

\* the moduli, in bits, of the recipient's RSA key: the key size the keys of
\* the nodes are generated with, and a key of twice that size
RSAKeySizes == {4096, 8192}

NoBytes == [kind |-> "error", len |-> 0]

\* PacketPing.ToBytes, PacketPong.ToBytes: the header, and a footer whose
\* signature is nil
ToBytes(pkt) ==
    [kind |-> "packet", type |-> pkt.type, sender |-> pkt.sender, len |-> PacketHeaderSize]

\* Crypto.Sign: rsa.SignPKCS1v15 over the SHA-256 of data, with the key of signer
Sign(data, signer) == [kind |-> "signature", of |-> data, by |-> signer, len |-> SignatureSize]

\* append(packetBytes, signature...)
SignedBytes(packetBytes, signature) ==
    [kind |-> "signed", data |-> packetBytes, sig |-> signature,
     len |-> packetBytes.len + signature.len]

\* rsa.EncryptOAEP with SHA-256 takes a message of at most k - 2*hLen - 2 bytes
\* for a modulus of k bytes
OAEPLimit(bits) == (bits \div 8) - 2 * HashSize - 2

\* Crypto.EncryptRSA under the public key the keyring holds for id, a key of
\* the given size
EncryptRSA(msg, id, bits) ==
    IF id \notin Keyring \/ msg.len > OAEPLimit(bits)
    THEN NoBytes
    ELSE [kind |-> "oaep", of |-> msg, to |-> id, len |-> bits \div 8]

\* Crypto.DecryptRSA with the private key of id, a key of the given size
DecryptRSA(ciphertext, id, bits) ==
    IF /\ ciphertext.kind = "oaep"
       /\ ciphertext.len <= bits \div 8
       /\ ciphertext.to = id
    THEN ciphertext.of
    ELSE NoBytes

\* bytes[from:to]
Slice(bytes, from, to) == [kind |-> "slice", of |-> bytes, from |-> from, len |-> to - from]

\* Crypto.VerifySignature(message, sig, id): rsa.VerifyPKCS1v15 under the key
\* the keyring holds for id
VerifySignatureOver(message, sig, id) ==
    /\ id \in Keyring
    /\ sig.kind = "signature"
    /\ sig.by = id
    /\ sig.of = message

\* ParsePacketHeader of decryptedBytes[:PacketHeaderSize]
ParsePacketHeader(decryptedBytes) ==
    /\ decryptedBytes.len >= PacketHeaderSize
    /\ decryptedBytes.kind = "signed"
    /\ decryptedBytes.data.type \in {"Ping", "Pong"}

\* a call of sendBytes by a peer: the packet, and the size of the key of
\* this node, the receiver
WireCalls ==
    {[type |-> type, sender |-> sender, bits |-> bits] :
        type \in {"Ping", "Pong"}, sender \in Peers, bits \in RSAKeySizes}

\* sendBytes(packet.ToBytes(), address, receiverIdentity) up to WriteTo
SendBytes(c) ==
    LET packetBytes == ToBytes(Header(c.type, c.sender))
        signature == Sign(packetBytes, c.sender)
    IN  EncryptRSA(SignedBytes(packetBytes, signature), Self, c.bits)

\* the datagram of a call of sendBytes that returned no error arrives:
\* go s.handleIncomingBytes(packetBytes, fromAddr); i holds the key size
WireArrive(c) ==
    /\ Alive
    /\ BagCardinality(hd) < MaxPackets
    /\ SendBytes(c).kind # "error"
    /\ hd' = hd (+) SetToBag({[pc |-> "wire", pkt |-> SendBytes(c), res |-> "none",
                               i |-> c.bits]})
    /\ UNCHANGED <<cfg, restVars, samplers, engineVars, viewVars, peerState, pullResponseNodes,
                   challengerVars, messageVars, historyVars>>

\* where handleIncomingBytes leaves the datagram packetBytes
ReceivePath(packetBytes, bits) ==
    LET decryptedBytes == DecryptRSA(packetBytes, Self, bits)
        n == packetBytes.len
    IN  IF n < PacketHeaderSize + SignatureSize THEN "length"
        ELSE IF decryptedBytes.kind = "error" THEN "decrypt"
        ELSE IF ~ParsePacketHeader(decryptedBytes) THEN "header"
        ELSE IF ~VerifySignatureOver(Slice(packetBytes, 0, n - SignatureSize),
                                     Slice(packetBytes, n - SignatureSize, n),
                                     decryptedBytes.data.sender)
             THEN "signature"
        ELSE "dispatch"

\* handleIncomingBytes from its first line to the switch over header.Type
HandleIncomingDatagram(g) ==
    /\ Alive
    /\ g.pc = "wire"
    /\ hd' = IF ReceivePath(g.pkt, g.i) = "dispatch"
               THEN Step(g, Handler(Header(DecryptRSA(g.pkt, Self, g.i).data.type,
                                           DecryptRSA(g.pkt, Self, g.i).data.sender)))
               ELSE Done(g, ReceivePath(g.pkt, g.i))
    /\ UNCHANGED <<cfg, restVars, samplers, engineVars, viewVars, peerState, pullResponseNodes,
                   challengerVars, messageVars, historyVars>>

NextWire ==
    \/ Engine
    \/ \E c \in WireCalls : WireArrive(c)
    \/ \E g \in Goroutines : HandleIncomingDatagram(g)

SpecWire == InitWholeShares /\ [][NextWire]_vars

\* C38: a packet that a peer in the keyring sent through sendBytes (the
\* datagram of a call that returned no error) passes the receive path of the
\* recipient and is dispatched to the handler of its type
SentDatagramDispatched ==
    [][\A g \in Goroutines :
          (Acts(g) /\ g.pc = "wire") =>
              \E c \in WireCalls : /\ g.pkt = SendBytes(c)
                                   /\ Arrives(Handler(Header(c.type, c.sender)))]_vars

(***************************************************************************)
(* The ids of the notifications: handleMessage after the store, and the    *)
(* GossipValidation packets of the API client                              *)
(***************************************************************************)

\* the width of GossipNotification.MessageID: uint16
MessageIDs == 65536

\* the datagrams of a peer that answers the PullRequest and sends messages
NotifyDatagrams == {Header("PullResponse", 1), Header("Message", 1)}

\* the two messages of that peer
NotifiedPackets == {PacketMessage(1, 2, 1, d) : d \in {1, 2}}

\* listenForPackets, for one datagram more than MaxPackets: the PullResponse
\* and two messages
ReceiveNotified(pkt) ==
    /\ Alive
    /\ BagCardinality(hd) < MaxPackets + 1
    /\ hd' = hd (+) SetToBag({Handler(pkt)})
    /\ UNCHANGED <<cfg, restVars, samplers, engineVars, viewVars, peerState, pullResponseNodes,
                   challengerVars, messageVars, historyVars>>

\* handleMessage from s.mutexMessages.Lock() to s.mutexMessages.Unlock(); the
\* goroutine of a stored message goes on to api.NewGossipNotification
HandleMessageNotify(g) ==
    /\ MessageStore(g, NotifiedPackets)
    /\ notifications' =
           IF Ends("stored")
           THEN notifications \cup {[dataHash |-> HashData(storedPkt'.data), pc |-> "new",
                                     messageID |-> 0]}
           ELSE notifications
    /\ UNCHANGED <<fed, viewCallVars, published, consecutiveOutgoingMessageID,
                   gossipValidationHandlers, validations>>

\* NewGossipNotification: messageID := consecutiveOutgoingMessageID
NewGossipNotificationRead(t) ==
    /\ Alive
    /\ t.pc = "new"
    /\ notifications' = (notifications \ {t}) \cup
                            {[t EXCEPT !.pc = "inc", !.messageID = consecutiveOutgoingMessageID]}
    /\ UNCHANGED <<cfg, samplers, engineVars, viewVars, peerState, pullResponseNodes,
                   challengerVars, messageVars, hd, historyVars, pingVars, storeHistoryVars,
                   netVars, fed, viewCallVars, published, consecutiveOutgoingMessageID,
                   gossipValidationHandlers, validations>>

\* NewGossipNotification: consecutiveOutgoingMessageID++, on a package variable
\* no lock guards: the increment writes one more than the value it read, which
\* is the current one or the one read for messageID
NewGossipNotificationIncrement(t) ==
    /\ Alive
    /\ t.pc = "inc"
    /\ \E read \in {consecutiveOutgoingMessageID, t.messageID} :
           consecutiveOutgoingMessageID' = (read + 1) % MessageIDs
    /\ notifications' = (notifications \ {t}) \cup {[t EXCEPT !.pc = "send"]}
    /\ UNCHANGED <<cfg, samplers, engineVars, viewVars, peerState, pullResponseNodes,
                   challengerVars, messageVars, hd, historyVars, pingVars, storeHistoryVars,
                   netVars, fed, viewCallVars, published, gossipValidationHandlers,
                   validations>>

\* the handlers left when the first old of them were created more than ten
\* seconds ago: for len(handlers) > 1 { if handlers[0] is old { handlers = handlers[1:] } else { break } }
WithoutOld(handlers, old) == SubSeq(handlers, old + 1, Len(handlers))

\* SendGossipNotifications(notification, validationCallback), an API client
\* being registered for the data type: the callback closes over dataHash
SendGossipNotifications(t) ==
    /\ Alive
    /\ t.pc = "send"
    /\ \E old \in 0..Len(gossipValidationHandlers) :
           gossipValidationHandlers' =
               WithoutOld(Append(gossipValidationHandlers,
                                 [messageID |-> t.messageID, dataHash |-> t.dataHash]), old)
    /\ notifications' = notifications \ {t}
    /\ UNCHANGED <<cfg, samplers, engineVars, viewVars, peerState, pullResponseNodes,
                   challengerVars, messageVars, hd, historyVars, pingVars, storeHistoryVars,
                   netVars, fed, viewCallVars, published, consecutiveOutgoingMessageID,
                   validations>>

\* the data hashes of the callbacks registered under the message id
CallbacksOf(handlers, messageID) ==
    {handlers[k].dataHash : k \in {j \in 1..Len(handlers) : handlers[j].messageID = messageID}}

\* handleRequests, case MessageTypeGossipValidation: for _, handler := range
\* s.gossipValidationHandlers { if handler.messageID == packet.MessageID {
\* handler.callback(packet.IsValid) } }
HandleValidation(messageID, valid) ==
    /\ Alive
    /\ IF valid
         THEN UNCHANGED messagesToSpread
         ELSE /\ mutexMessages = "free"
              /\ messagesToSpread' =
                     SelectSeq(messagesToSpread,
                               LAMBDA msg : msg.DataHash \notin
                                   CallbacksOf(gossipValidationHandlers, messageID))
    /\ validations' = validations \cup
           {[messageID |-> messageID, called |-> CallbacksOf(gossipValidationHandlers, messageID)]}
    /\ UNCHANGED <<cfg, samplers, engineVars, viewVars, peerState, pullResponseNodes,
                   challengerVars, mutexMessages, hd, historyVars, pingVars, storeHistoryVars,
                   netVars, fed, viewCallVars, published, consecutiveOutgoingMessageID,
                   gossipValidationHandlers, notifications>>

\* the ids of the notifications the API client was sent and can answer
NotifiedIDs == {gossipValidationHandlers[k].messageID : k \in 1..Len(gossipValidationHandlers)}

NextNotify ==
    \/ Engine
    \/ \E pkt \in NotifyDatagrams : ReceiveNotified(pkt)
    \/ \E g \in Goroutines : PullResponseStep(g)
    \/ \E g \in Goroutines : HandleMessageCheck(g)
    \/ \E g \in Goroutines : HandleMessageNotify(g)
    \/ PullDrainAppend
    \/ \E t \in notifications : NewGossipNotificationRead(t)
    \/ \E t \in notifications : NewGossipNotificationIncrement(t)
    \/ \E t \in notifications : SendGossipNotifications(t)
    \/ \E messageID \in NotifiedIDs : \E valid \in BOOLEAN : HandleValidation(messageID, valid)

SpecNotify == InitWholeShares /\ [][NextNotify]_vars

\* C39: a GossipValidation with message id m calls the validation callback
\* of one notification only, the one sent with id m, and so purges no other
\* message, also when messages are notified concurrently
ValidationCallsOneCallback ==
    \A v \in validations : Cardinality(v.called) <= 1

\* C40: for every n from 1 to the number of samplers, RandomNodeSubset(n)
\* returns exactly n entries, each the current Sample() of a distinct
\* sampler of the group
RandomNodeSubsetReturnsSamples ==
    \A n \in 1..Len(samplers) :
        LET r == RandomNodeSubset(samplers, n)
        IN  /\ r.kind = "ok"
            /\ \A nodes \in r.results :
                   /\ Len(nodes) = n
                   /\ \E f \in Picks(Len(samplers), n) :
                          \A k \in 1..n : nodes[k] = Sample(samplers[f[k]])

====
